---------------------------- MODULE Spec2Model ----------------------------
(***************************************************************************)
(* A model of stcm2-asm: the STCM2 binary record codec (src/src/stcm2.rs), *)
(* the disassembler (src/src/disasm.rs) and the assembler (src/src/asm.rs).*)
(*                                                                         *)
(* Representation.                                                         *)
(*   - a byte is a number in 0..255, a buffer is a sequence of bytes;      *)
(*   - a u32 is a pair <<hi, lo>> of 16-bit halves (TLC's integers stop at *)
(*     2^31-1, the program's words do not), with wrapping arithmetic;      *)
(*   - text is a sequence of Unicode scalar values (numbers); the model's  *)
(*     texts hold scalars below 256 only.                                  *)
(***************************************************************************)
EXTENDS Integers, Sequences, FiniteSets, TLC

VARIABLES
    pc,     \* position of the running tool ("asm_code", "fb_actions", ...)
    build,  \* "debug" | "release": decides what integer overflow does
    arg,    \* the arguments of a function run on its own
    pool,   \* the data-pool buffer between encoding and decoding
    ret,    \* its result
    job,    \* the command line: which tool runs first, with which flags
    fb,     \* from_bytes: the file, the read position, the Stcm2 it builds
    dis,    \* disasm.rs main: the autolabels and the standard output
    asm,    \* asm.rs main: the lines, the actions, the tables, the output
    result  \* what each tool's main returned

vars == <<pc, build, arg, pool, ret, job, fb, dis, asm, result>>

-----------------------------------------------------------------------------
(* u32 arithmetic *)

W16 == 2^16

U32(n) == <<n \div W16, n % W16>>

\* the value of a word as a number; defined for words below 2^31 only
Small(w) == w[1] < 2^15
ToNat(w) == w[1] * W16 + w[2]

u32_lt(a, b) == a[1] < b[1] \/ (a[1] = b[1] /\ a[2] < b[2])
u32_ge(a, b) == ~u32_lt(a, b)

add_overflows(a, b) == a[1] + b[1] + ((a[2] + b[2]) \div W16) >= W16
wrapping_add(a, b) ==
    <<(a[1] + b[1] + ((a[2] + b[2]) \div W16)) % W16, (a[2] + b[2]) % W16>>

sub_overflows(a, b) == u32_lt(a, b)
wrapping_sub(a, b) ==
    LET borrow == IF a[2] < b[2] THEN 1 ELSE 0
    IN  <<(a[1] + W16 - b[1] - borrow) % W16, (a[2] + W16 - b[2]) % W16>>

\* !x
not_u32(a) == <<W16 - 1 - a[1], W16 - 1 - a[2]>>

to_le_bytes(w) == <<w[2] % 256, w[2] \div 256, w[1] % 256, w[1] \div 256>>
from_le_bytes(b) == <<b[3] + 256 * b[4], b[1] + 256 * b[2]>>

-----------------------------------------------------------------------------
(* text: sequences of scalar values; literals are written with T *)

\* the printable ASCII characters, from the space (32) to the tilde (126)
ASCII ==
    <<
      " ", "!", "\"", "#", "$", "%", "&", "'", "(", ")", "*", "+",
      ",", "-", ".", "/", "0", "1", "2", "3", "4", "5", "6", "7",
      "8", "9", ":", ";", "<", "=", ">", "?", "@", "A", "B", "C",
      "D", "E", "F", "G", "H", "I", "J", "K", "L", "M", "N", "O",
      "P", "Q", "R", "S", "T", "U", "V", "W", "X", "Y", "Z", "[",
      "\\", "]", "^", "_", "(backtick)", "a", "b", "c", "d", "e", "f", "g",
      "h", "i", "j", "k", "l", "m", "n", "o", "p", "q", "r", "s",
      "t", "u", "v", "w", "x", "y", "z", "{", "|", "}", "~"
    >>

Ord(c) == 31 + CHOOSE i \in 1 .. Len(ASCII) : ASCII[i] = c
T(s) == [i \in 1 .. Len(s) |-> Ord(s[i])]

(* helpers on sequences (slices, prefixes), as the code's slice methods *)
Drop(s, n) == SubSeq(s, n + 1, Len(s))
Take(s, n) == SubSeq(s, 1, n)
starts_with(s, p) == Len(s) >= Len(p) /\ Take(s, Len(p)) = p
ends_with(s, p) == Len(s) >= Len(p) /\ Drop(s, Len(s) - Len(p)) = p
Zeros(n) == [i \in 1 .. n |-> 0]

RECURSIVE Concat(_)
Concat(ss) == IF ss = <<>> THEN <<>> ELSE Head(ss) \o Concat(Tail(ss))

\* the first index >= from at which p occurs in s, or 0
RECURSIVE find_from(_, _, _)
find_from(s, p, from) ==
    IF from + Len(p) - 1 > Len(s) THEN 0
    ELSE IF SubSeq(s, from, from + Len(p) - 1) = p THEN from
    ELSE find_from(s, p, from + 1)

(* digits *)
IsDigit(c) == c \in 48 .. 57
IsLowerHex(c) == c \in 48 .. 57 \/ c \in 97 .. 102
IsUpperHex(c) == c \in 48 .. 57 \/ c \in 65 .. 70
IsHex(c) == IsLowerHex(c) \/ IsUpperHex(c)
HexVal(c) == IF c \in 48 .. 57 THEN c - 48
             ELSE IF c \in 97 .. 102 THEN c - 87 ELSE c - 55
LowerHexDigit(d) == IF d < 10 THEN 48 + d ELSE 87 + d
UpperHexDigit(d) == IF d < 10 THEN 48 + d ELSE 55 + d

\* {:02x} of a value below 256
fmt_02x(b) == <<LowerHexDigit(b \div 16), LowerHexDigit(b % 16)>>

-----------------------------------------------------------------------------
(* results of fallible code: Ok(v), Err(msg) (a returned anyhow error),    *)
(* Panic(msg) (the process aborts)                                         *)

Ok(v) == [tag |-> "Ok", val |-> v, msg |-> ""]
Err(m) == [tag |-> "Err", val |-> <<>>, msg |-> m]
Panic(m) == [tag |-> "Panic", val |-> <<>>, msg |-> m]

\* the ? operator: the first failure ends the computation
Bind(r, K(_)) == IF r.tag # "Ok" THEN r ELSE K(r.val)

-----------------------------------------------------------------------------
(* stcm2.rs: constants *)

STCM2_MAGIC == <<83, 84, 67, 77, 50>>
STCM2_TAG_LENGTH == 32 - Len(STCM2_MAGIC)
GLOBAL_DATA_MAGIC == <<71, 76, 79, 66, 65, 76, 95, 68, 65, 84, 65, 0>>
GLOBAL_DATA_OFFSET ==
    Len(STCM2_MAGIC) + STCM2_TAG_LENGTH + 12 * 4 + Len(GLOBAL_DATA_MAGIC)
CODE_START_MAGIC == <<67, 79, 68, 69, 95, 83, 84, 65, 82, 84, 95, 0>>
EXPORT_DATA_MAGIC == <<69, 88, 80, 79, 82, 84, 95, 68, 65, 84, 65, 0>>
COLLECTION_LINK_MAGIC ==
    <<67, 79, 76, 76, 69, 67, 84, 73, 79, 78, 95, 76, 73, 78, 75, 0>>

\* 0xffffff41, 0x40000000, 0xff000000
ACTIONREF_MARK == <<65535, 65345>>
FILLER_L == <<16384, 0>>
FILLER_FF == <<65280, 0>>

(* stcm2.rs: enum Parameter *)
ActionRef(v) == [kind |-> "ActionRef", v |-> v]
DataPointer(v) == [kind |-> "DataPointer", v |-> v]
Value(v) == [kind |-> "Value", v |-> v]
GlobalDataPointer(v) == [kind |-> "GlobalDataPointer", v |-> v]

\* the or-pattern 0x40000000 | 0xff000000
IsFiller(w) == w = FILLER_L \/ w = FILLER_FF

\* a guard `addr >= base && addr < base+len`: the sum is computed only when
\* the first test passes; in a debug build its overflow panics, in a release
\* build it wraps
WindowOverflows(addr, base, len) ==
    u32_ge(addr, base) /\ add_overflows(base, len)
InWindow(addr, base, len) ==
    u32_ge(addr, base) /\ u32_lt(addr, wrapping_add(base, len))

\* a variant: the ActionRef arm placed after the three plain arms
ParseActionRefLast(value, data_addr, data_len, global_data_len) ==
    LET GDO == U32(GLOBAL_DATA_OFFSET)
        addr == value[1]
        plain == IsFiller(value[2]) /\ IsFiller(value[3])
    IN  IF plain /\ InWindow(addr, data_addr, data_len)
        THEN Ok(DataPointer(wrapping_sub(addr, data_addr)))
        ELSE IF plain /\ InWindow(addr, GDO, global_data_len)
        THEN Ok(GlobalDataPointer(wrapping_sub(addr, GDO)))
        ELSE IF plain THEN Ok(Value(addr))
        ELSE IF value[1] = ACTIONREF_MARK /\ IsFiller(value[3])
        THEN Ok(ActionRef(value[2]))
        ELSE Err("bad parameter")

(* stcm2.rs: Parameter::parse *)
Parse(value, data_addr, data_len, global_data_len) ==
    LET GDO == U32(GLOBAL_DATA_OFFSET)
        addr == value[1]
        plain == IsFiller(value[2]) /\ IsFiller(value[3])
    IN  IF value[1] = ACTIONREF_MARK /\ IsFiller(value[3])
        THEN Ok(ActionRef(value[2]))
        ELSE IF ~plain THEN Err("bad parameter")
        ELSE IF WindowOverflows(addr, data_addr, data_len) /\ build = "debug"
        THEN Panic("attempt to add with overflow")
        ELSE IF InWindow(addr, data_addr, data_len)
        THEN Ok(DataPointer(wrapping_sub(addr, data_addr)))
        ELSE IF WindowOverflows(addr, GDO, global_data_len) /\ build = "debug"
        THEN Panic("attempt to add with overflow")
        ELSE IF InWindow(addr, GDO, global_data_len)
        THEN Ok(GlobalDataPointer(wrapping_sub(addr, GDO)))
        ELSE Ok(Value(addr))

-----------------------------------------------------------------------------
(* the text codec (encoding_rs, UTF-8): scalar values <-> bytes *)

Utf8EncodeChar(c) ==
    IF c < 128 THEN <<c>>
    ELSE IF c < 2048 THEN <<192 + (c \div 64), 128 + (c % 64)>>
    ELSE IF c < 65536
    THEN <<224 + (c \div 4096), 128 + ((c \div 64) % 64), 128 + (c % 64)>>
    ELSE <<240 + (c \div 262144), 128 + ((c \div 4096) % 64),
           128 + ((c \div 64) % 64), 128 + (c % 64)>>

RECURSIVE Utf8Encode(_)
Utf8Encode(text) ==
    IF text = <<>> THEN <<>>
    ELSE Utf8EncodeChar(Head(text)) \o Utf8Encode(Tail(text))

\* the length of the well-formed UTF-8 sequence that starts at s[i], or 0
Utf8SeqLen(s, i) ==
    LET b == s[i]
        at(k) == IF i + k <= Len(s) THEN s[i + k] ELSE 0
        cont(k) == at(k) \in 128 .. 191
    IN  IF b < 128 THEN 1
        ELSE IF b \in 194 .. 223 /\ cont(1) THEN 2
        ELSE IF b = 224 /\ at(1) \in 160 .. 191 /\ cont(2) THEN 3
        ELSE IF b \in (225 .. 236) \cup {238, 239} /\ cont(1) /\ cont(2) THEN 3
        ELSE IF b = 237 /\ at(1) \in 128 .. 159 /\ cont(2) THEN 3
        ELSE IF b = 240 /\ at(1) \in 144 .. 191 /\ cont(2) /\ cont(3) THEN 4
        ELSE IF b \in 241 .. 243 /\ cont(1) /\ cont(2) /\ cont(3) THEN 4
        ELSE IF b = 244 /\ at(1) \in 128 .. 143 /\ cont(2) /\ cont(3) THEN 4
        ELSE 0

Utf8Scalar(s, i, n) ==
    IF n = 1 THEN s[i]
    ELSE IF n = 2 THEN (s[i] - 192) * 64 + (s[i + 1] - 128)
    ELSE IF n = 3
    THEN (s[i] - 224) * 4096 + (s[i + 1] - 128) * 64 + (s[i + 2] - 128)
    ELSE (s[i] - 240) * 262144 + (s[i + 1] - 128) * 4096
         + (s[i + 2] - 128) * 64 + (s[i + 3] - 128)

\* U+1F5FF, the scalar the disassembler puts before the hex of a bad byte
MOAI == 128511

(* disasm.rs: decode_with_hex_replacement; every byte outside a well-formed *)
(* sequence becomes U+1F5FF 'X' h h                                         *)
RECURSIVE decode_from(_, _)
decode_from(buf, i) ==
    IF i > Len(buf) THEN <<>>
    ELSE LET n == Utf8SeqLen(buf, i)
         IN  IF n = 0
             THEN <<MOAI, 88>> \o fmt_02x(buf[i]) \o decode_from(buf, i + 1)
             ELSE <<Utf8Scalar(buf, i, n)>> \o decode_from(buf, i + n)

decode_with_hex_replacement(buf) == decode_from(buf, 1)

\* char::is_control: the category Cc
is_control(c) == c \in 0 .. 31 \/ c \in 127 .. 159

(* disasm.rs: main, the characters written between the quotes of a string *)
RECURSIVE write_chars(_)
write_chars(s) ==
    IF s = <<>> THEN <<>>
    ELSE LET ch == Head(s)
         IN  (IF is_control(ch) THEN <<92, 120>> \o fmt_02x(ch)
              ELSE IF ch = MOAI THEN <<92>>
              ELSE IF ch = 34 \/ ch = 92 THEN <<92, ch>>
              ELSE <<ch>>) \o write_chars(Tail(s))

-----------------------------------------------------------------------------
(* the data-pool codec *)

get_u32_le(buf, off) == from_le_bytes(SubSeq(buf, off + 1, off + 4))

(* asm.rs: encode_bytestring; the buffer with the cell appended *)
encode_bytestring(type_, inner, buffer) ==
    IF Len(inner) % 4 # 0 THEN Err("must be divisible by 4")
    ELSE Ok(buffer \o to_le_bytes(type_) \o to_le_bytes(U32(Len(inner) \div 4))
            \o to_le_bytes(U32(1)) \o to_le_bytes(U32(Len(inner))) \o inner)

\* the regex \\x([0-9a-f]{2}) at s[i], with the given letter
EscapeAt(s, i, letter) ==
    /\ i + 3 <= Len(s)
    /\ s[i] = 92
    /\ s[i + 1] = letter
    /\ IsLowerHex(s[i + 2])
    /\ IsLowerHex(s[i + 3])
EscapeByte(s, i) == 16 * HexVal(s[i + 2]) + HexVal(s[i + 3])

(* asm.rs: encode_string::unsub_wellformed; \xHH becomes the scalar HH,    *)
(* \" and \\ become the character, anything else stays                     *)
RECURSIVE unsub_from(_, _)
unsub_from(wf, i) ==
    IF i > Len(wf) THEN <<>>
    ELSE IF EscapeAt(wf, i, 120)
    THEN <<EscapeByte(wf, i)>> \o unsub_from(wf, i + 4)
    ELSE IF wf[i] = 92 /\ i + 1 <= Len(wf) /\ wf[i + 1] \in {34, 92}
    THEN <<wf[i + 1]>> \o unsub_from(wf, i + 2)
    ELSE <<wf[i]>> \o unsub_from(wf, i + 1)

unsub_wellformed(wf) == unsub_from(wf, 1)

(* asm.rs: cow_str_to_bytes (UTF-8: every scalar is mappable) *)
cow_str_to_bytes(str) == Utf8Encode(str)

\* MALFORMED.captures_at(inner, idx): the leftmost match at or after i, or 0
RECURSIVE malformed_at(_, _)
malformed_at(inner, i) ==
    IF i > Len(inner) THEN 0
    ELSE IF EscapeAt(inner, i, 88) THEN i
    ELSE malformed_at(inner, i + 1)

\* the loop of encode_string: the bytes of all pieces, from index i on
RECURSIVE encode_pieces(_, _)
encode_pieces(inner, i) ==
    IF i > Len(inner) THEN <<>>
    ELSE LET m == malformed_at(inner, i)
         IN  IF m = 0
             THEN cow_str_to_bytes(unsub_wellformed(Drop(inner, i - 1)))
             ELSE (IF m # i
                   THEN cow_str_to_bytes(
                            unsub_wellformed(SubSeq(inner, i, m - 1)))
                   ELSE <<>>)
                  \o <<EscapeByte(inner, m)>>
                  \o encode_pieces(inner, m + 4)

\* a variant that pads to the next multiple of 4 only when it has to
StringPaddingIfNeeded(len) == (4 - (len % 4)) % 4

\* the padding of a text payload of len bytes
StringPadding(len) == 4 - (len % 4)

(* asm.rs: encode_string; the buffer with the cell appended *)
encode_string(inner, buffer) ==
    LET pieces == encode_pieces(inner, 1)
        nzero == StringPadding(Len(pieces))
        len == Len(pieces) + nzero
        qlen == len \div 4
    IN  Ok(buffer \o to_le_bytes(U32(0)) \o to_le_bytes(U32(qlen))
           \o to_le_bytes(U32(1)) \o to_le_bytes(U32(len))
           \o pieces \o Zeros(nzero))

(* disasm.rs: enum StringType *)
String(b) == [kind |-> "String", bytes |-> b, n |-> U32(0)]
Type0U32(n) == [kind |-> "Type0U32", bytes |-> <<>>, n |-> n]
Type1U32(n) == [kind |-> "Type1U32", bytes |-> <<>>, n |-> n]

\* a variant: the range starts at 0x1000 (four hex digits) instead of 0x100000
LooksLikeTextFrom1000(n) ==
    n[1] \in 1 .. 255 \/ (n[1] = 0 /\ n[2] >= 4096) \/ n = U32(28783)

\* matches!(n, 0x100000..0x1000000 | 28783)
LooksLikeText(n) == n[1] \in 16 .. 255 \/ n = U32(28783)

RECURSIVE trailing_zeros(_)
trailing_zeros(b) ==
    IF b = <<>> \/ b[Len(b)] # 0 THEN 0
    ELSE 1 + trailing_zeros(Take(b, Len(b) - 1))

\* qlen*4
mul4_overflows(w) == w[1] >= 2^14
wrapping_mul4(w) == <<(4 * w[1] + (4 * w[2]) \div W16) % W16, (4 * w[2]) % W16>>

(* disasm.rs: decode_string; Ok([st, tail]) *)
decode_string(addr, bytes) ==
    IF addr > Len(bytes) THEN Panic("cannot advance past the end")
    ELSE
    LET str == Drop(bytes, addr)
        type_ == get_u32_le(str, 0)
        qlen == get_u32_le(str, 4)
        one == get_u32_le(str, 8)
        len == get_u32_le(str, 12)
        body == Drop(str, 16)
    IN  IF ~(Len(str) > 16) THEN Err("not enough room for magic")
        ELSE IF type_ \notin {U32(0), U32(1)}
        THEN Err("string magic isn't 0 or 1")
        ELSE IF one # U32(1) THEN Err("string magic isn't 1")
        ELSE IF mul4_overflows(qlen) /\ build = "debug"
        THEN Panic("attempt to multiply with overflow")
        ELSE IF len # wrapping_mul4(qlen)
        THEN Err("len and qlen are inconsistent")
        ELSE IF ~Small(len) \/ Len(body) < ToNat(len)
        THEN Err("not enough room for string data")
        ELSE
        LET payload == Take(body, ToNat(len))
            tail == Drop(body, ToNat(len))
            nzero == trailing_zeros(payload)
        IN  IF Len(payload) = 4
               /\ (type_ = U32(1) \/ ~LooksLikeText(from_le_bytes(payload)))
            THEN Ok([st |-> IF type_ = U32(0)
                            THEN Type0U32(from_le_bytes(payload))
                            ELSE Type1U32(from_le_bytes(payload)),
                     tail |-> tail])
            ELSE IF type_ # U32(0)
            THEN Err("string type is 1, but is not a u32")
            ELSE IF nzero \notin 1 .. 4 THEN Err("string is not canonical")
            ELSE Ok([st |-> String(Take(payload, Len(payload) - nzero)),
                     tail |-> tail])

-----------------------------------------------------------------------------
(* Option<T> *)
None == [some |-> FALSE, v |-> <<>>]
Some(x) == [some |-> TRUE, v |-> x]

-----------------------------------------------------------------------------
(* numbers in text *)

\* u32::from_str_radix(s, 16) / str::parse::<u32>(): one more digit d
push_digit_overflows(w, radix, d) ==
    radix * w[1] + ((radix * w[2] + d) \div W16) >= W16
push_digit(w, radix, d) ==
    <<(radix * w[1] + ((radix * w[2] + d) \div W16)) % W16,
      (radix * w[2] + d) % W16>>

RECURSIVE parse_digits(_, _, _, _)
parse_digits(s, i, radix, acc) ==
    IF i > Len(s) THEN Ok(acc)
    ELSE IF ~(IF radix = 16 THEN IsHex(s[i]) ELSE IsDigit(s[i]))
    THEN Err("invalid digit found in string")
    ELSE IF push_digit_overflows(acc, radix, HexVal(s[i]))
    THEN Err("number too large to fit in target type")
    ELSE parse_digits(s, i + 1, radix, push_digit(acc, radix, HexVal(s[i])))

\* a leading '+' is accepted; the empty string and a lone sign are not
parse_u32(s, radix) ==
    LET digits == IF s # <<>> /\ s[1] = 43 THEN Tail(s) ELSE s
    IN  IF digits = <<>> THEN Err("cannot parse integer from empty string")
        ELSE parse_digits(digits, 1, radix, U32(0))

\* {n} of a number below 2^31
RECURSIVE fmt_dec(_)
fmt_dec(n) ==
    IF n < 10 THEN <<48 + n>> ELSE fmt_dec(n \div 10) \o <<48 + (n % 10)>>

\* {n:X} of a number below 2^16, and of the same padded to four digits
RECURSIVE fmt_hex16(_)
fmt_hex16(n) ==
    IF n < 16 THEN <<UpperHexDigit(n)>>
    ELSE fmt_hex16(n \div 16) \o <<UpperHexDigit(n % 16)>>
fmt_hex16_04(n) ==
    <<UpperHexDigit(n \div 4096), UpperHexDigit((n \div 256) % 16),
      UpperHexDigit((n \div 16) % 16), UpperHexDigit(n % 16)>>

\* {w:X} of a u32
fmt_X(w) ==
    IF w[1] = 0 THEN fmt_hex16(w[2]) ELSE fmt_hex16(w[1]) \o fmt_hex16_04(w[2])

\* {addr:06X}
fmt_06X(w) ==
    LET h == fmt_X(w)
    IN  [i \in 1 .. (IF Len(h) < 6 THEN 6 - Len(h) ELSE 0) |-> 48] \o h

-----------------------------------------------------------------------------
(* base64 (BASE64_STANDARD_NO_PAD) *)

B64Char(v) ==
    IF v < 26 THEN 65 + v
    ELSE IF v < 52 THEN 97 + (v - 26)
    ELSE IF v < 62 THEN 48 + (v - 52)
    ELSE IF v = 62 THEN 43 ELSE 47

IsB64(c) == c \in 65 .. 90 \/ c \in 97 .. 122 \/ c \in 48 .. 57 \/ c \in {43, 47}
B64Val(c) ==
    IF c \in 65 .. 90 THEN c - 65
    ELSE IF c \in 97 .. 122 THEN c - 97 + 26
    ELSE IF c \in 48 .. 57 THEN c - 48 + 52
    ELSE IF c = 43 THEN 62 ELSE 63

(* Base64Display: the text of a byte string *)
RECURSIVE base64_encode(_)
base64_encode(b) ==
    IF b = <<>> THEN <<>>
    ELSE IF Len(b) = 1
    THEN <<B64Char(b[1] \div 4), B64Char((b[1] % 4) * 16)>>
    ELSE IF Len(b) = 2
    THEN <<B64Char(b[1] \div 4), B64Char((b[1] % 4) * 16 + (b[2] \div 16)),
           B64Char((b[2] % 16) * 4)>>
    ELSE <<B64Char(b[1] \div 4), B64Char((b[1] % 4) * 16 + (b[2] \div 16)),
           B64Char((b[2] % 16) * 4 + (b[3] \div 64)), B64Char(b[3] % 64)>>
         \o base64_encode(Drop(b, 3))

(* Engine::decode: bad symbols, a dangling symbol and non-zero trailing    *)
(* bits are errors; '=' is a bad symbol without padding                     *)
RECURSIVE base64_decode_from(_, _)
base64_decode_from(s, i) ==
    LET left == Len(s) - i + 1
        v(k) == B64Val(s[i + k])
    IN  IF left = 0 THEN Ok(<<>>)
        ELSE IF left = 1 THEN Err("base64: invalid length")
        ELSE IF left = 2
        THEN IF v(1) % 16 # 0 THEN Err("base64: invalid last symbol")
             ELSE Ok(<<v(0) * 4 + (v(1) \div 16)>>)
        ELSE IF left = 3
        THEN IF v(2) % 4 # 0 THEN Err("base64: invalid last symbol")
             ELSE Ok(<<v(0) * 4 + (v(1) \div 16),
                       (v(1) % 16) * 16 + (v(2) \div 4)>>)
        ELSE LET rest == base64_decode_from(s, i + 4)
             IN  IF rest.tag # "Ok" THEN rest
                 ELSE Ok(<<v(0) * 4 + (v(1) \div 16),
                           (v(1) % 16) * 16 + (v(2) \div 4),
                           (v(2) % 4) * 64 + v(3)>> \o rest.val)

base64_decode(s) ==
    IF \E i \in 1 .. Len(s) : ~IsB64(s[i]) THEN Err("base64: invalid symbol")
    ELSE base64_decode_from(s, 1)

-----------------------------------------------------------------------------
(* asm.rs: the text of a line *)

IsAsciiWhitespace(c) == c \in {32, 9, 10, 12, 13}

RECURSIVE trim_ascii_start(_)
trim_ascii_start(s) ==
    IF s # <<>> /\ IsAsciiWhitespace(s[1]) THEN trim_ascii_start(Tail(s)) ELSE s

\* the number of leading spaces
RECURSIVE leading_spaces(_)
leading_spaces(s) ==
    IF s # <<>> /\ s[1] = 32 THEN 1 + leading_spaces(Tail(s)) ELSE 0

(* asm.rs: main, INITIAL_ADDRESS.replace(line, ""): ^(?:[0-9A-F]{6})? + *)
strip_initial_address(line) ==
    LET hex6 == Len(line) >= 6 /\ \A i \in 1 .. 6 : IsUpperHex(line[i])
        after == IF hex6 THEN Drop(line, 6) ELSE line
    IN  IF hex6 /\ leading_spaces(after) > 0
        THEN Drop(after, leading_spaces(after))
        ELSE Drop(line, leading_spaces(line))

\* [!-\[\]-~]
IsLabelChar(c) == c \in 33 .. 91 \/ c \in 93 .. 126

\* the longest prefix of s[i..] made of label characters and \xHH escapes
RECURSIVE label_run(_, _)
label_run(s, i) ==
    IF i > Len(s) THEN i - 1
    ELSE IF IsLabelChar(s[i]) THEN label_run(s, i + 1)
    ELSE IF EscapeAt(s, i, 120) THEN label_run(s, i + 4)
    ELSE i - 1

(* asm.rs: main, LABEL.captures(instr): ^((?:[!-\[\]-~]|\\x[0-9a-f]{2})+):  *)
(* followed by a space; the length of the label, or 0 without a match.     *)
(* A space ends the run of label characters and ':' is one of them, so the  *)
(* only ": " the pattern can end at is the one that ends the run.           *)
label_match(instr) ==
    LET r == label_run(instr, 1)
    IN  IF r >= 2 /\ instr[r] = 58 /\ r + 1 <= Len(instr) /\ instr[r + 1] = 32
        THEN r - 1
        ELSE 0

(* asm.rs: decode_label; \xHH in the bytes of the label becomes one byte *)
RECURSIVE decode_label_from(_, _)
decode_label_from(b, i) ==
    IF i > Len(b) THEN <<>>
    ELSE IF EscapeAt(b, i, 120)
    THEN <<EscapeByte(b, i)>> \o decode_label_from(b, i + 4)
    ELSE <<b[i]>> \o decode_label_from(b, i + 1)

decode_label(label) == decode_label_from(Utf8Encode(label), 1)

\* split: the end of the quoted token that starts at instr[1]
RECURSIVE quote_end(_, _, _)
quote_end(instr, i, skip) ==
    IF i > Len(instr) THEN Err("bad quotes")
    ELSE IF skip > 0 THEN quote_end(instr, i + 1, skip - 1)
    ELSE IF instr[i] = 34 THEN Ok(i)
    ELSE IF instr[i] = 92 /\ i + 1 <= Len(instr)
    THEN IF instr[i + 1] \in {34, 92} THEN quote_end(instr, i + 1, 1)
         ELSE IF instr[i + 1] = 120 THEN quote_end(instr, i + 1, 3)
         ELSE Err("unsupported escape")
    ELSE quote_end(instr, i + 1, 0)

RECURSIVE split_loop(_, _)
split_loop(instr0, parts) ==
    LET instr == trim_ascii_start(instr0)
    IN  IF starts_with(instr, <<33, 32>>)
        THEN Ok([parts |-> parts, junk |-> Some(Drop(instr, 2))])
        ELSE IF instr = <<>> THEN Ok([parts |-> parts, junk |-> None])
        ELSE IF instr[1] = 34
        THEN LET end == quote_end(instr, 2, 0)
             IN  IF end.tag # "Ok" THEN end
                 ELSE LET tail == Drop(instr, end.val)
                      IN  split_loop(
                              IF starts_with(tail, <<44, 32>>)
                              THEN Drop(tail, 2) ELSE tail,
                              Append(parts, Take(instr, end.val)))
        ELSE LET comma == find_from(instr, <<44>>, 1)
                 bang == find_from(instr, <<32, 33, 32>>, 1)
             IN  IF comma # 0
                 THEN split_loop(Drop(instr, comma),
                                 Append(parts, Take(instr, comma - 1)))
                 ELSE IF bang # 0
                 THEN split_loop(Drop(instr, bang - 1),
                                 Append(parts, Take(instr, bang - 1)))
                 ELSE Ok([parts |-> Append(parts, instr), junk |-> None])

(* asm.rs: split *)
split(orig) == split_loop(orig, <<>>)

-----------------------------------------------------------------------------
(* stcm2.rs: struct Action *)
Action(export, call, opcode, params, data) ==
    [export |-> export, call |-> call, opcode |-> opcode,
     params |-> params, data |-> data]

(* stcm2.rs: Action::len *)
Action_len(act) == 16 + 12 * Len(act.params) + Len(act.data)

(* main.rs: main, the mnemonic table without a configuration file *)
mnemonics == {[name |-> T(<<"r", "e", "t", "u", "r", "n">>), opcode |-> U32(0)]}

-----------------------------------------------------------------------------
(* asm.rs: main, the pending-reference table: an IndexMap from a label to   *)
(* Option<u32>, here the sequence of its entries in insertion order         *)

\* Entry::index: the index (from 0) of the entry, or of the entry to insert
entry_index(pending_references, name) ==
    IF \E i \in 1 .. Len(pending_references) :
           pending_references[i].name = name
    THEN (CHOOSE i \in 1 .. Len(pending_references) :
              pending_references[i].name = name) - 1
    ELSE Len(pending_references)

\* Entry::or_default
entry_or_default(pending_references, name) ==
    IF entry_index(pending_references, name) < Len(pending_references)
    THEN pending_references
    ELSE Append(pending_references, [name |-> name, addr |-> None])

\* a variant that keeps the address of an entry that has one
map_insert_first(pending_references, name, addr) ==
    IF entry_index(pending_references, name) < Len(pending_references)
       /\ pending_references[entry_index(pending_references, name) + 1]
              .addr.some
    THEN pending_references
    ELSE IF entry_index(pending_references, name) < Len(pending_references)
    THEN [pending_references EXCEPT
             ![entry_index(pending_references, name) + 1].addr = addr]
    ELSE Append(pending_references, [name |-> name, addr |-> addr])

\* IndexMap::insert: an existing entry keeps its index
map_insert(pending_references, name, addr) ==
    LET i == entry_index(pending_references, name)
    IN  IF i < Len(pending_references)
        THEN [pending_references EXCEPT ![i + 1].addr = addr]
        ELSE Append(pending_references, [name |-> name, addr |-> addr])

\* a variant that leaves the index as it is
placeholder_plain(idx) == U32(idx)

\* the placeholder of a reference: !idx
placeholder(idx) == not_u32(U32(idx))

\* a variant: only local_ labels are kept out of the export table
IsLocalLabelOnlyLocal(lbl) ==
    starts_with(lbl, T(<<"l", "o", "c", "a", "l", "_">>))

\* the labels that are registered but not exported
IsLocalLabel(lbl) ==
    \/ starts_with(lbl, T(<<"l", "o", "c", "a", "l", "_">>))
    \/ starts_with(lbl, T(<<"f", "n", "_">>))

\* a variant: the prefix of the other pointer syntax of the listing
DATA_PREFIX == T(<<"d", "a", "t", "a", "+">>)

\* the operand syntax [global_data+N]
GLOBAL_DATA_PREFIX ==
    T(<<"g", "l", "o", "b", "a", "l", "_", "d", "a", "t", "a", "+">>)

(* asm.rs: main, one operand (the closure of split[1..].iter().map):       *)
(* Ok([param, data, pending_references])                                    *)
asm_param(param, data, pending_references) ==
    LET done(p, d, pr) ==
            Ok([param |-> p, data |-> d, pending_references |-> pr])
        cell(e) ==
            Bind(e, LAMBDA d : done(DataPointer(U32(Len(data))), d,
                                    pending_references))
    IN  IF starts_with(param, <<34>>)
        THEN IF ~ends_with(Tail(param), <<34>>) THEN Err("no ending quote")
             ELSE cell(encode_string(Take(Tail(param), Len(param) - 2), data))
        ELSE IF param # <<>> /\ param[1] \in {61, 64}
        THEN LET typed == starts_with(Tail(param), <<61>>)
                 lit == IF typed THEN Drop(param, 2) ELSE Tail(param)
             IN  Bind(IF ends_with(lit, <<104>>)
                      THEN parse_u32(Take(lit, Len(lit) - 1), 16)
                      ELSE parse_u32(lit, 10),
                      LAMBDA n : cell(encode_bytestring(
                                          U32(IF typed THEN 1 ELSE 0),
                                          to_le_bytes(n), data)))
        ELSE IF starts_with(param, <<91>>)
        THEN IF ~ends_with(Tail(param), <<93>>)
             THEN Err("no matching bracket??")
             ELSE LET inner == Take(Tail(param), Len(param) - 2)
                  IN  IF starts_with(inner, GLOBAL_DATA_PREFIX)
                      THEN Bind(parse_u32(
                                    Drop(inner, Len(GLOBAL_DATA_PREFIX)), 10),
                                LAMBDA n : done(GlobalDataPointer(n), data,
                                                pending_references))
                      ELSE done(
                               ActionRef(placeholder(entry_index(
                                   pending_references, decode_label(inner)))),
                               data,
                               entry_or_default(pending_references,
                                                decode_label(inner)))
        ELSE Bind(parse_u32(param, 16),
                  LAMBDA n : done(Value(n), data, pending_references))

\* the operands of a line, in order; the first error ends the line
RECURSIVE asm_params(_, _, _, _)
asm_params(parts, params, data, pending_references) ==
    IF parts = <<>>
    THEN Ok([params |-> params, data |-> data,
             pending_references |-> pending_references])
    ELSE Bind(asm_param(Head(parts), data, pending_references),
              LAMBDA r : asm_params(Tail(parts), Append(params, r.param),
                                    r.data, r.pending_references))

RAW_PREFIX == T(<<"r", "a", "w", " ">>)
CALL_PREFIX == T(<<"c", "a", "l", "l", " ">>)

(* asm.rs: main, the operation of a line:                                  *)
(* Ok([call, opcode, pending_references])                                   *)
asm_op(op, pending_references) ==
    LET done(c, o, pr) ==
            Ok([call |-> c, opcode |-> o, pending_references |-> pr])
    IN  IF starts_with(op, RAW_PREFIX)
        THEN Bind(parse_u32(Drop(op, Len(RAW_PREFIX)), 16),
                  LAMBDA n : done(FALSE, n, pending_references))
        ELSE IF \E m \in mnemonics : m.name = op
        THEN done(FALSE, (CHOOSE m \in mnemonics : m.name = op).opcode,
                  pending_references)
        ELSE IF starts_with(op, CALL_PREFIX)
        THEN done(TRUE,
                  placeholder(entry_index(
                      pending_references,
                      decode_label(Drop(op, Len(CALL_PREFIX))))),
                  entry_or_default(
                      pending_references,
                      decode_label(Drop(op, Len(CALL_PREFIX)))))
        ELSE Err("invalid op")

(* asm.rs: main, the body of `for instr in code` for a line that is not    *)
(* empty: Ok([actions, pending_references])                                 *)
asm_line(line, actions, pending_references) ==
    LET labelled(n, lbl) ==
            Bind(split(IF n > 0 THEN Drop(line, n + 2) ELSE line),
                 LAMBDA sp :
            IF sp.parts = <<>> THEN Panic("index out of bounds: split[0]")
            ELSE
            Bind(asm_op(sp.parts[1],
                        IF n > 0
                        THEN map_insert(pending_references, lbl,
                                        Some(U32(Len(actions))))
                        ELSE pending_references),
                 LAMBDA op :
            Bind(base64_decode(IF sp.junk.some THEN sp.junk.v ELSE <<>>),
                 LAMBDA junk :
            Bind(asm_params(Tail(sp.parts), <<>>, junk,
                            op.pending_references),
                 LAMBDA ps :
            Ok([actions |->
                    Append(actions,
                           Action(IF n > 0 /\ ~IsLocalLabel(lbl)
                                  THEN Some(lbl) ELSE None,
                                  op.call, op.opcode, ps.params, ps.data)),
                pending_references |-> ps.pending_references])))))
        matched(n) == labelled(n, decode_label(Take(line, n)))
    IN  matched(label_match(line))

\* a variant: a name that no line defines resolves to the first action
resolve_ref_first(pending_references, ptr) ==
    LET idx == not_u32(ptr)
    IN  IF ~Small(idx) \/ ToNat(idx) >= Len(pending_references)
        THEN Err("wow this shouldn't happen")
        ELSE IF ~pending_references[ToNat(idx) + 1].addr.some
        THEN Ok(U32(0))
        ELSE Ok(pending_references[ToNat(idx) + 1].addr.v)

\* IndexMap::get_index(idx).1 for a placeholder; Err as the code reports it
resolve_ref(pending_references, ptr) ==
    LET idx == not_u32(ptr)
    IN  IF ~Small(idx) \/ ToNat(idx) >= Len(pending_references)
        THEN Err("wow this shouldn't happen")
        ELSE IF ~pending_references[ToNat(idx) + 1].addr.some
        THEN Err("never encountered this label")
        ELSE Ok(pending_references[ToNat(idx) + 1].addr.v)

RECURSIVE resolve_params(_, _)
resolve_params(params, pending_references) ==
    IF params = <<>> THEN Ok(<<>>)
    ELSE Bind(IF Head(params).kind = "ActionRef"
              THEN resolve_ref(pending_references, Head(params).v)
              ELSE Ok(Head(params).v),
              LAMBDA ptr :
         Bind(resolve_params(Tail(params), pending_references),
              LAMBDA rest :
         Ok(<<[Head(params) EXCEPT !.v = ptr]>> \o rest)))

(* asm.rs: main, "resolve all pending references in the Vec context" *)
RECURSIVE resolve_actions(_, _)
resolve_actions(actions, pending_references) ==
    IF actions = <<>> THEN Ok(<<>>)
    ELSE Bind(IF Head(actions).call
              THEN resolve_ref(pending_references, Head(actions).opcode)
              ELSE Ok(Head(actions).opcode),
              LAMBDA opcode :
         Bind(resolve_params(Head(actions).params, pending_references),
              LAMBDA ps :
         Bind(resolve_actions(Tail(actions), pending_references),
              LAMBDA rest :
         Ok(<<[Head(actions) EXCEPT !.opcode = opcode, !.params = ps]>>
            \o rest))))

\* the sum of the lengths of the first n actions
RECURSIVE prefix_len(_, _)
prefix_len(actions, n) ==
    IF n = 0 THEN 0 ELSE prefix_len(actions, n - 1) + Action_len(actions[n])

\* a variant that counts the 16 bytes of every record header only
rename_table_headers(actions) ==
    [i \in 1 .. Len(actions) |-> U32(16 * (i - 1))]

(* asm.rs: main, "temporary table to handle renaming pointers" *)
rename_table(actions) ==
    [i \in 1 .. Len(actions) |-> U32(prefix_len(actions, i - 1))]

\* renames[usize::try_from(x)?]
rename_index(renames, x) ==
    IF ~Small(x) \/ ToNat(x) >= Len(renames)
    THEN Panic("index out of bounds: renames")
    ELSE Ok(renames[ToNat(x) + 1])

RECURSIVE rename_params(_, _)
rename_params(params, renames) ==
    IF params = <<>> THEN Ok(<<>>)
    ELSE Bind(IF Head(params).kind = "ActionRef"
              THEN rename_index(renames, Head(params).v)
              ELSE Ok(Head(params).v),
              LAMBDA ptr :
         Bind(rename_params(Tail(params), renames),
              LAMBDA rest :
         Ok(<<[Head(params) EXCEPT !.v = ptr]>> \o rest)))

(* asm.rs: main, "rename pointers relative to code_start" *)
RECURSIVE rename_actions(_, _)
rename_actions(actions, renames) ==
    IF actions = <<>> THEN Ok(<<>>)
    ELSE Bind(IF Head(actions).call
              THEN rename_index(renames, Head(actions).opcode)
              ELSE Ok(Head(actions).opcode),
              LAMBDA opcode :
         Bind(rename_params(Head(actions).params, renames),
              LAMBDA ps :
         Bind(rename_actions(Tail(actions), renames),
              LAMBDA rest :
         Ok(<<[Head(actions) EXCEPT !.opcode = opcode, !.params = ps]>>
            \o rest))))

-----------------------------------------------------------------------------
(* asm.rs: main, writing the file *)

\* x + y in u32: Ok, or what the build does on overflow
u32_add(x, y) ==
    IF add_overflows(x, y) /\ build = "debug"
    THEN Panic("attempt to add with overflow")
    ELSE Ok(wrapping_add(x, y))

\* the three words of an operand of the record whose data starts at data_base
write_param(param, data_base, code_base, filler) ==
    LET words(a, b, c) == Ok(to_le_bytes(a) \o to_le_bytes(b) \o to_le_bytes(c))
    IN  IF param.kind = "Value" THEN words(param.v, filler, filler)
        ELSE IF param.kind = "GlobalDataPointer"
        THEN Bind(u32_add(U32(GLOBAL_DATA_OFFSET), param.v),
                  LAMBDA a : words(a, filler, filler))
        ELSE IF param.kind = "DataPointer"
        THEN words(U32(data_base + ToNat(param.v)), filler, filler)
        ELSE words(ACTIONREF_MARK, U32(code_base + ToNat(param.v)), filler)

RECURSIVE write_params(_, _, _, _)
write_params(params, data_base, code_base, filler) ==
    IF params = <<>> THEN Ok(<<>>)
    ELSE Bind(write_param(Head(params), data_base, code_base, filler),
              LAMBDA w :
         Bind(write_params(Tail(params), data_base, code_base, filler),
              LAMBDA rest : Ok(w \o rest)))

\* one record, written at offset at
write_action(act, at, code_base, filler) ==
    Bind(write_params(act.params, at + 16 + 12 * Len(act.params), code_base,
                      filler),
         LAMBDA ps :
             Ok(to_le_bytes(U32(IF act.call THEN 1 ELSE 0))
                \o to_le_bytes(IF act.call
                               THEN U32(code_base + ToNat(act.opcode))
                               ELSE act.opcode)
                \o to_le_bytes(U32(Len(act.params)))
                \o to_le_bytes(U32(Action_len(act)))
                \o ps \o act.data))

\* the action stream: every record at code_base + renames[i]
RECURSIVE write_actions(_, _, _, _, _)
write_actions(actions, renames, i, code_base, filler) ==
    IF i > Len(actions) THEN Ok(<<>>)
    ELSE Bind(write_action(actions[i], code_base + ToNat(renames[i]),
                           code_base, filler),
              LAMBDA w :
         Bind(write_actions(actions, renames, i + 1, code_base, filler),
              LAMBDA rest : Ok(w \o rest)))

\* the export list: (name, offset) of every action that carries an export
RECURSIVE collect_exports(_, _, _, _)
collect_exports(actions, renames, i, code_base) ==
    IF i > Len(actions) THEN <<>>
    ELSE (IF actions[i].export.some
          THEN <<[name |-> actions[i].export.v,
                  addr |-> code_base + ToNat(renames[i])]>>
          ELSE <<>>)
         \o collect_exports(actions, renames, i + 1, code_base)

RECURSIVE write_exports(_)
write_exports(exports) ==
    IF exports = <<>> THEN <<>>
    ELSE to_le_bytes(U32(0)) \o Head(exports).name
         \o Zeros(32 - Len(Head(exports).name))
         \o to_le_bytes(U32(Head(exports).addr))
         \o write_exports(Tail(exports))

\* the words of the 48-byte block that the writer back-patches
write_meta(export_addr, export_len, collection_link_len, collection_link_addr) ==
    to_le_bytes(U32(export_addr)) \o to_le_bytes(U32(export_len))
    \o to_le_bytes(U32(collection_link_len))
    \o to_le_bytes(U32(collection_link_addr)) \o Zeros(4 * 12 - 16)

(* asm.rs: main, from `let mut out = Vec::new()` to the end: Ok(out) *)
asm_write(tag, filler, global_data, actions, renames) ==
    LET code_base == GLOBAL_DATA_OFFSET + Len(global_data)
                     + Len(CODE_START_MAGIC)
        emit(stream, exports, export_addr) ==
            IF \E i \in 1 .. Len(exports) : Len(exports[i].name) > 32
            THEN Panic("attempt to subtract with overflow: export name")
            ELSE Ok(STCM2_MAGIC \o tag \o Zeros(STCM2_TAG_LENGTH - Len(tag))
                    \o write_meta(export_addr, Len(exports), 2,
                                  export_addr + 40 * Len(exports)
                                  + Len(COLLECTION_LINK_MAGIC))
                    \o GLOBAL_DATA_MAGIC \o global_data \o CODE_START_MAGIC
                    \o stream
                    \o EXPORT_DATA_MAGIC \o write_exports(exports)
                    \o COLLECTION_LINK_MAGIC
                    \o to_le_bytes(U32(0))
                    \o to_le_bytes(U32(export_addr + 40 * Len(exports)
                                       + Len(COLLECTION_LINK_MAGIC) + 4 + 60))
                    \o Zeros(60 - 4))
    IN  IF Len(tag) > STCM2_TAG_LENGTH
        THEN Panic("attempt to subtract with overflow: tag")
        ELSE Bind(write_actions(actions, renames, 1, code_base, filler),
                  LAMBDA stream :
                      emit(stream,
                           collect_exports(actions, renames, 1, code_base),
                           code_base + Len(stream) + Len(EXPORT_DATA_MAGIC)))

\* the first three lines: Ok([tag, filler, global_data])
TAG_PREFIX == T(<<".", "t", "a", "g", " ", "\"">>)
GLOBAL_DATA_LINE == T(<<".", "g", "l", "o", "b", "a", "l", "_", "d", "a", "t", "a", " ">>)
CODE_START_LINE == T(<<".", "c", "o", "d", "e", "_", "s", "t", "a", "r", "t">>)
is_ascii(s) == \A i \in 1 .. Len(s) : s[i] < 128

(* asm.rs: main, the .tag, .global_data and .code_start lines *)
asm_header(lines) ==
    IF ~(Len(lines) >= 1 /\ is_ascii(lines[1]) /\ Len(lines[1]) >= 7
         /\ starts_with(lines[1], TAG_PREFIX) /\ ends_with(lines[1], <<34>>))
    THEN Err("improper tag")
    ELSE IF ~(Len(lines) >= 2 /\ is_ascii(lines[2])
              /\ starts_with(lines[2], GLOBAL_DATA_LINE))
    THEN Err("improper global data")
    ELSE Bind(base64_decode(Drop(lines[2], 13)),
              LAMBDA gd :
                  IF ~(Len(lines) >= 3 /\ lines[3] = CODE_START_LINE)
                  THEN Err("improper code start")
                  ELSE Ok([tag |-> SubSeq(lines[1], 7, Len(lines[1]) - 1),
                           filler |-> IF lines[1][7] = 76
                                      THEN FILLER_L ELSE FILLER_FF,
                           global_data |-> gd]))

-----------------------------------------------------------------------------
(* stcm2.rs: from_bytes *)

\* the scan `while !file[global_len..].starts_with(CODE_START_MAGIC)`, where
\* file starts at GLOBAL_DATA_OFFSET: indexing past the end panics
RECURSIVE scan_code_start(_, _)
scan_code_start(file, global_len) ==
    IF GLOBAL_DATA_OFFSET + global_len > Len(file)
    THEN Panic("range start index out of range")
    ELSE IF starts_with(Drop(file, GLOBAL_DATA_OFFSET + global_len),
                        CODE_START_MAGIC)
    THEN Ok(global_len)
    ELSE scan_code_start(file, global_len + 4)

(* from_bytes, up to the start of the action stream:                        *)
(* Ok([tag, export_addr, export_len, global_len, global_data, pos])         *)
fb_header(file) ==
    IF ~starts_with(file, STCM2_MAGIC) THEN Err("ensure: STCM2_MAGIC")
    ELSE IF Len(file) < 32 + 16 + 32
    THEN Panic("advance/split_to out of bounds")
    ELSE IF ~starts_with(Drop(file, 32 + 16 + 32), GLOBAL_DATA_MAGIC)
    THEN Err("ensure: GLOBAL_DATA_MAGIC")
    ELSE Bind(scan_code_start(file, 0),
              LAMBDA len :
                  Ok([tag |-> SubSeq(file, Len(STCM2_MAGIC) + 1, 32),
                      export_addr |-> get_u32_le(file, 32),
                      export_len |-> get_u32_le(file, 36),
                      global_len |-> len,
                      global_data |-> SubSeq(file, GLOBAL_DATA_OFFSET + 1,
                                             GLOBAL_DATA_OFFSET + len),
                      pos |-> GLOBAL_DATA_OFFSET + len
                              + Len(CODE_START_MAGIC)]))

\* get_pos(&file) < usize::try_from(export_addr)? - EXPORT_DATA_MAGIC.len():
\* Ok(TRUE|FALSE); the subtraction is in usize, where a wrapped value is
\* above every position
more_actions(pos, export_addr) ==
    IF Small(export_addr) /\ ToNat(export_addr) < Len(EXPORT_DATA_MAGIC)
    THEN IF build = "debug" THEN Panic("attempt to subtract with overflow")
         ELSE Ok(TRUE)
    ELSE Ok(~Small(export_addr)
            \/ pos < ToNat(export_addr) - Len(EXPORT_DATA_MAGIC))

\* 12*nparams, and 16 + 12*nparams, in u32
mul12_overflows(n) == 12 * n[1] + ((12 * n[2]) \div W16) >= W16
wrapping_mul12(n) ==
    <<(12 * n[1] + ((12 * n[2]) \div W16)) % W16, (12 * n[2]) % W16>>

\* addr + 16 + 12*nparams: Ok, or a panic of the debug build
data_addr_of(addr, nparams) ==
    IF build = "debug"
       /\ (mul12_overflows(nparams)
           \/ add_overflows(wrapping_add(addr, U32(16)),
                            wrapping_mul12(nparams)))
    THEN Panic("attempt to multiply/add with overflow")
    ELSE Ok(wrapping_add(wrapping_add(addr, U32(16)), wrapping_mul12(nparams)))

\* length - 16 - 12*nparams: Ok, or a panic of the debug build; a release
\* build wraps
data_len_of(length, nparams) ==
    IF build = "debug"
       /\ (mul12_overflows(nparams)
           \/ sub_overflows(length, U32(16))
           \/ sub_overflows(wrapping_sub(length, U32(16)),
                            wrapping_mul12(nparams)))
    THEN Panic("attempt to subtract with overflow")
    ELSE Ok(wrapping_sub(wrapping_sub(length, U32(16)),
                         wrapping_mul12(nparams)))

\* the operands of a record: the loop `for _ in 0..nparams`, reading at at
RECURSIVE fb_params(_, _, _, _, _, _, _)
fb_params(file, at, left, addr, nparams, length, global_len) ==
    IF left = U32(0) THEN Ok(<<>>)
    ELSE IF at + 12 > Len(file) THEN Panic("get_u32_le out of bounds")
    ELSE Bind(data_addr_of(addr, nparams), LAMBDA data_addr :
         Bind(data_len_of(length, nparams), LAMBDA data_len :
         Bind(Parse(<<get_u32_le(file, at), get_u32_le(file, at + 4),
                      get_u32_le(file, at + 8)>>,
                    data_addr, data_len, U32(global_len)),
              LAMBDA p :
         Bind(fb_params(file, at + 12, wrapping_sub(left, U32(1)), addr,
                        nparams, length, global_len),
              LAMBDA rest : Ok(<<p>> \o rest)))))

(* from_bytes, the body of the `while` over the action stream, for the     *)
(* record at pos: Ok([addr, act, ndata, pos])                               *)
fb_action(file, pos, global_len) ==
    IF pos + 16 > Len(file) THEN Panic("get_u32_le out of bounds")
    ELSE IF get_u32_le(file, pos) \notin {U32(0), U32(1)}
    THEN Err("global_call")
    ELSE
    LET record(global_call, opcode, nparams, length) ==
            Bind(fb_params(file, pos + 16, nparams, U32(pos), nparams, length,
                           global_len),
                 LAMBDA params :
            Bind(data_len_of(length, nparams),
                 LAMBDA ndata :
            IF ~Small(ndata)
               \/ pos + 16 + 12 * Len(params) + ToNat(ndata) > Len(file)
            THEN Panic("split_to out of bounds")
            ELSE Ok([addr |-> U32(pos),
                     act |-> Action(None, global_call = U32(1), opcode, params,
                                    SubSeq(file,
                                           pos + 16 + 12 * Len(params) + 1,
                                           pos + 16 + 12 * Len(params)
                                           + ToNat(ndata))),
                     pos |-> pos + 16 + 12 * Len(params) + ToNat(ndata)])))
    IN  record(get_u32_le(file, pos), get_u32_le(file, pos + 4),
               get_u32_le(file, pos + 8), get_u32_le(file, pos + 12))

\* the index of the action at addr in the map (a sequence in key order), or 0
action_at(actions, addr) ==
    IF \E i \in 1 .. Len(actions) : actions[i].addr = addr
    THEN CHOOSE i \in 1 .. Len(actions) : actions[i].addr = addr
    ELSE 0

(* from_bytes, the loop `for _ in 0..export_len` reading at pos: Ok(actions) *)
RECURSIVE fb_exports(_, _, _, _)
fb_exports(file, pos, left, actions) ==
    IF left = U32(0) THEN Ok(actions)
    ELSE IF pos + 40 > Len(file)
    THEN IF pos + 4 <= Len(file) /\ get_u32_le(file, pos) # U32(0)
         THEN Err("ensure: export word is 0")
         ELSE Panic("get_u32_le/split_to out of bounds")
    ELSE IF get_u32_le(file, pos) # U32(0) THEN Err("ensure: export word is 0")
    ELSE
    LET export == SubSeq(file, pos + 5, pos + 36)
        i == action_at(actions, get_u32_le(file, pos + 36))
    IN  IF i = 0 THEN Err("export does not match known action")
        ELSE IF actions[i].act.export.some THEN Err("ensure: export is none")
        ELSE fb_exports(file, pos + 40, wrapping_sub(left, U32(1)),
                        [actions EXCEPT ![i].act.export = Some(export)])

-----------------------------------------------------------------------------
(* stcm2.rs: Action::label, and disasm.rs *)

RECURSIVE strip_trailing_zeros(_)
strip_trailing_zeros(b) ==
    IF b # <<>> /\ b[Len(b)] = 0 THEN strip_trailing_zeros(Take(b, Len(b) - 1))
    ELSE b

RECURSIVE until_zero(_)
until_zero(b) ==
    IF b = <<>> \/ Head(b) = 0 THEN <<>> ELSE <<Head(b)>> \o until_zero(Tail(b))

(* Action::label *)
label(act, junk) ==
    IF ~act.export.some THEN None
    ELSE IF junk THEN Some(strip_trailing_zeros(act.export.v))
    ELSE Some(until_zero(act.export.v))

autolabel(prefix, addr) == prefix \o <<95>> \o fmt_X(addr)

RECURSIVE label_to_string(_)
label_to_string(lbl) ==
    IF lbl = <<>> THEN <<>>
    ELSE (IF Head(lbl) \in 33 .. 91 \/ Head(lbl) \in 93 .. 126
          THEN <<Head(lbl)>>
          ELSE <<92, 120>> \o fmt_02x(Head(lbl)))
         \o label_to_string(Tail(lbl))

\* autolabels.entry(addr).or_default(), as a function on the keys present
or_default(autolabels, addr) ==
    IF addr \in DOMAIN autolabels THEN autolabels
    ELSE (addr :> <<>>) @@ autolabels

FN == T(<<"f", "n">>)
LOCAL_ == T(<<"l", "o", "c", "a", "l">>)

\* a variant in which every ActionRef sets the local label
RECURSIVE autolabel_params_always(_, _, _)
autolabel_params_always(params, actions, autolabels) ==
    IF params = <<>> THEN Ok(autolabels)
    ELSE IF Head(params).kind # "ActionRef"
    THEN autolabel_params_always(Tail(params), actions, autolabels)
    ELSE IF action_at(actions, Head(params).v) = 0 THEN Err("bruh9")
    ELSE IF actions[action_at(actions, Head(params).v)].act.export.some
    THEN autolabel_params_always(Tail(params), actions, autolabels)
    ELSE autolabel_params_always(
             Tail(params), actions,
             [or_default(autolabels, Head(params).v)
                 EXCEPT ![Head(params).v] = autolabel(LOCAL_, Head(params).v)])

\* the loop over the operands of one action in the autolabel pass
RECURSIVE autolabel_params(_, _, _)
autolabel_params(params, actions, autolabels) ==
    IF params = <<>> THEN Ok(autolabels)
    ELSE IF Head(params).kind # "ActionRef"
    THEN autolabel_params(Tail(params), actions, autolabels)
    ELSE
    LET addr == Head(params).v
        i == action_at(actions, addr)
    IN  IF i = 0 THEN Err("bruh9")
        ELSE IF actions[i].act.export.some
        THEN autolabel_params(Tail(params), actions, autolabels)
        ELSE LET ent == or_default(autolabels, addr)
             IN  autolabel_params(Tail(params), actions,
                    IF ent[addr] = <<>>
                    THEN [ent EXCEPT ![addr] = autolabel(LOCAL_, addr)]
                    ELSE ent)

\* the `if let Action { call: true, .. }` part of the autolabel pass
autolabel_call(act, actions, autolabels) ==
    IF ~act.call THEN Ok(autolabels)
    ELSE LET i == action_at(actions, act.opcode)
         IN  IF i = 0 THEN Err("bruh0")
             ELSE IF actions[i].act.export.some THEN Ok(autolabels)
             ELSE LET ent == or_default(autolabels, act.opcode)
                  IN  Ok(IF ~starts_with(ent[act.opcode], FN)
                         THEN [ent EXCEPT ![act.opcode] =
                                   autolabel(FN, act.opcode)]
                         ELSE ent)

(* disasm.rs: main, "build symbol table and autolabels": Ok(autolabels) *)
RECURSIVE build_autolabels(_, _, _)
build_autolabels(actions, i, autolabels) ==
    IF i > Len(actions) THEN Ok(autolabels)
    ELSE Bind(autolabel_call(actions[i].act, actions, autolabels),
              LAMBDA called :
         Bind(autolabel_params(actions[i].act.params, actions, called),
              LAMBDA referenced :
         build_autolabels(actions, i + 1, referenced)))

(* disasm.rs: main, giving every autolabel to its action: Ok(actions) *)
attach_autolabels(actions, autolabels) ==
    IF \E i \in 1 .. Len(actions) :
          actions[i].addr \in DOMAIN autolabels /\ actions[i].act.export.some
    THEN Err("ensure: export is none")
    ELSE Ok([i \in 1 .. Len(actions) |->
                IF actions[i].addr \in DOMAIN autolabels
                THEN [actions[i] EXCEPT
                         !.act.export = Some(autolabels[actions[i].addr])]
                ELSE actions[i]])

-----------------------------------------------------------------------------
(* disasm.rs: chunk_actions *)

\* a variant that keeps the address only
action_labels_own(entry) == {entry.addr}

\* the label set of one action: its address and its ActionRef operands
action_labels(entry) ==
    {entry.addr} \cup {entry.act.params[k].v : k \in
        {k \in 1 .. Len(entry.act.params) :
            entry.act.params[k].kind = "ActionRef"}}

\* the first loop: a chunk ends after every `return`
RECURSIVE chunk_split(_, _, _, _, _)
chunk_split(actions, i, chunks, current_labels, current_chunk) ==
    IF i > Len(actions)
    THEN IF current_chunk # <<>>
         THEN Append(chunks, [labels |-> current_labels, acts |-> current_chunk])
         ELSE chunks
    ELSE LET ls == current_labels \cup action_labels(actions[i])
             ch == Append(current_chunk, actions[i])
         IN  IF ~actions[i].act.call /\ actions[i].act.opcode = U32(0)
             THEN chunk_split(actions, i + 1,
                              Append(chunks, [labels |-> ls, acts |-> ch]),
                              {}, <<>>)
             ELSE chunk_split(actions, i + 1, chunks, ls, ch)

\* chunks cur .. i drained into chunk cur
RECURSIVE chunk_union(_, _, _)
chunk_union(chunks, cur, i) ==
    IF i = cur THEN chunks[cur]
    ELSE LET u == chunk_union(chunks, cur, i - 1)
         IN  [labels |-> u.labels \cup chunks[i].labels,
              acts |-> u.acts \o chunks[i].acts]

\* chunks.drain(cur+1..=i) extended into chunk cur; a variant that extends
\* chunk cur and drains nothing
chunk_drain_none(chunks, cur, i) ==
    [chunks EXCEPT ![cur] = chunk_union(chunks, cur, i)]

chunk_drain(chunks, cur, i) ==
    Take(chunks, cur - 1) \o <<chunk_union(chunks, cur, i)>> \o Drop(chunks, i)

\* the chunks after cur that share a label with chunk cur
chunk_hits(chunks, cur) ==
    {i \in cur + 1 .. Len(chunks) :
        chunks[cur].labels \cap chunks[i].labels # {}}

\* .rev(): the last of them
chunk_last_hit(chunks, cur) ==
    CHOOSE j \in chunk_hits(chunks, cur) :
        \A k \in chunk_hits(chunks, cur) : k <= j

\* the second loop, from index cur (1-based)
RECURSIVE chunk_merge(_, _)
chunk_merge(chunks, cur) ==
    IF ~(cur + 1 <= Len(chunks)) THEN chunks
    ELSE IF chunk_hits(chunks, cur) # {}
    THEN chunk_merge(chunk_drain(chunks, cur, chunk_last_hit(chunks, cur)),
                     cur)
    ELSE chunk_merge(chunks, cur + 1)

chunk_actions(acts) ==
    LET chunks == chunk_merge(chunk_split(acts, 1, <<>>, {}, <<>>), 1)
    IN  [c \in 1 .. Len(chunks) |-> chunks[c].acts]

-----------------------------------------------------------------------------
(* disasm.rs: main, printing *)

Spaces(n) == [i \in 1 .. (IF n > 0 THEN n ELSE 0) |-> 32]

\* {label:>maxlabel$}
pad_left(s, width) == Spaces(width - Len(s)) \o s

Max(a, b) == IF a >= b THEN a ELSE b

RECURSIVE max_label_len(_, _, _)
max_label_len(actions, i, junk) ==
    IF i > Len(actions) THEN 0
    ELSE Max(IF actions[i].act.export.some
             THEN Len(label(actions[i].act, junk).v) ELSE 0,
             max_label_len(actions, i + 1, junk))

\* the scan of an action's data for cells: Ok([junk, data_pos]), where the
\* current `data` is actdata from offset off
RECURSIVE scan_data(_, _, _, _, _, _)
scan_data(actdata, off, pos, junk, at_beginning, data_pos) ==
    LET data == Drop(actdata, off)
        cell(r) ==
            IF r.tag = "Panic" THEN r
            ELSE IF r.tag = "Err"
            THEN scan_data(actdata, off, pos + 1, junk, at_beginning, data_pos)
            ELSE IF pos # 0 /\ ~at_beginning
            THEN Err("junk found after beginning")
            ELSE scan_data(actdata, Len(actdata) - Len(r.val.tail), 0,
                           IF pos # 0 THEN Take(data, pos) ELSE junk,
                           FALSE,
                           data_pos \cup {[pos |-> off + pos,
                                           s |-> r.val.st]})
    IN  IF pos < Len(data) THEN cell(decode_string(pos, data))
        ELSE IF data # <<>>
        THEN IF ~at_beginning THEN Err("junk found after beginning")
             ELSE Ok([junk |-> data, data_pos |-> data_pos])
        ELSE Ok([junk |-> junk, data_pos |-> data_pos])

\* n < 0x10000000
below_10000000(n) == n[1] < 4096

\* the text of one operand
print_param(param, actions, data_pos, junk) ==
    IF param.kind = "Value" THEN Ok(<<44, 32>> \o fmt_X(param.v))
    ELSE IF param.kind = "ActionRef"
    THEN LET i == action_at(actions, param.v)
         IN  IF i = 0 THEN Err("bruh5")
             ELSE IF ~actions[i].act.export.some THEN Err("bruh6")
             ELSE Ok(<<44, 32, 91>>
                     \o label_to_string(label(actions[i].act, junk).v)
                     \o <<93>>)
    ELSE IF param.kind = "GlobalDataPointer"
    THEN Ok(<<44, 32, 91>> \o GLOBAL_DATA_PREFIX \o fmt_dec(ToNat(param.v))
            \o <<93>>)
    ELSE IF ~(Small(param.v)
              /\ \E e \in data_pos : e.pos = ToNat(param.v))
    THEN Err("param references non-string")
    ELSE
    LET s == (CHOOSE e \in data_pos : e.pos = ToNat(param.v)).s
        prefix == IF s.kind = "Type1U32" THEN <<64>> ELSE <<>>
    IN  IF s.kind = "String"
        THEN Ok(<<44, 32, 34>>
                \o write_chars(decode_with_hex_replacement(s.bytes)) \o <<34>>)
        ELSE IF below_10000000(s.n)
        THEN Ok(<<44, 32>> \o prefix \o <<61>> \o fmt_dec(ToNat(s.n)))
        ELSE Ok(<<44, 32>> \o prefix \o <<61>> \o fmt_X(s.n) \o <<104>>)

RECURSIVE print_params(_, _, _, _)
print_params(params, actions, data_pos, junk) ==
    IF params = <<>> THEN Ok(<<>>)
    ELSE Bind(print_param(Head(params), actions, data_pos, junk),
              LAMBDA p :
         Bind(print_params(Tail(params), actions, data_pos, junk),
              LAMBDA rest : Ok(p \o rest)))

\* the mnemonic of an opcode, if any (mnemonics.get_by_right)
get_by_right(opcode) ==
    IF \E m \in mnemonics : m.opcode = opcode
    THEN Some((CHOOSE m \in mnemonics : m.opcode = opcode).name)
    ELSE None

\* the operation text of an action
print_op(act, actions, junk) ==
    IF act.call
    THEN LET i == action_at(actions, act.opcode)
         IN  IF i = 0 THEN Err("bruh")
             ELSE IF ~actions[i].act.export.some THEN Err("bruh2")
             ELSE Ok(CALL_PREFIX
                     \o label_to_string(label(actions[i].act, junk).v))
    ELSE IF get_by_right(act.opcode).some THEN Ok(get_by_right(act.opcode).v)
    ELSE Ok(RAW_PREFIX \o fmt_X(act.opcode))

(* disasm.rs: main, the body of `for (addr, act) in chunk`: Ok(line) *)
print_action(entry, actions, maxlabel, args) ==
    Bind(print_op(entry.act, actions, args.junk), LAMBDA op :
    Bind(scan_data(entry.act.data, 0, 0, <<>>, TRUE, {}), LAMBDA scan :
    Bind(print_params(entry.act.params, actions, scan.data_pos, args.junk),
         LAMBDA ps :
    Ok((IF args.address THEN fmt_06X(entry.addr) \o <<32>> ELSE <<>>)
       \o (IF entry.act.export.some
           THEN pad_left(label_to_string(label(entry.act, args.junk).v),
                         maxlabel) \o <<58, 32>>
           ELSE Spaces(maxlabel) \o <<32, 32>>)
       \o op \o ps
       \o (IF args.junk /\ scan.junk # <<>>
           THEN <<32, 33, 32>> \o base64_encode(scan.junk)
           ELSE <<>>)
       \o <<10>>))))

RECURSIVE print_chunk(_, _, _, _)
print_chunk(chunk, actions, maxlabel, args) ==
    IF chunk = <<>> THEN Ok(<<>>)
    ELSE Bind(print_action(Head(chunk), actions, maxlabel, args),
              LAMBDA l :
         Bind(print_chunk(Tail(chunk), actions, maxlabel, args),
              LAMBDA rest : Ok(l \o rest)))

RECURSIVE print_chunks(_, _, _, _)
print_chunks(chunks, actions, maxlabel, args) ==
    IF chunks = <<>> THEN Ok(<<>>)
    ELSE Bind(print_chunk(Head(chunks), actions, maxlabel, args),
              LAMBDA c :
         Bind(print_chunks(Tail(chunks), actions, maxlabel, args),
              LAMBDA rest : Ok(<<10>> \o c \o rest)))

\* str::from_utf8(tag): every byte starts or continues a well-formed sequence
RECURSIVE is_utf8(_, _)
is_utf8(b, i) ==
    IF i > Len(b) THEN TRUE
    ELSE LET n == Utf8SeqLen(b, i)
         IN  n > 0 /\ is_utf8(b, i + n)

(* disasm.rs: main, from `let tag = ...` to the end: Ok(stdout) *)
print_listing(tag, global_data, actions, args) ==
    IF ~is_utf8(tag, 1) THEN Err("nooooo")
    ELSE Bind(print_chunks(chunk_actions(actions), actions,
                           Max(max_label_len(actions, 1, args.junk), 14),
                           args),
              LAMBDA body :
                  Ok(TAG_PREFIX
                     \o decode_with_hex_replacement(strip_trailing_zeros(tag))
                     \o <<34, 10>>
                     \o GLOBAL_DATA_LINE \o base64_encode(global_data)
                     \o <<10>>
                     \o CODE_START_LINE \o <<10>>
                     \o body))

\* BufRead::lines: the text split at \n, a trailing \r of a line dropped
lines_of(text) ==
    LET feeds == {i \in 1 .. Len(text) : text[i] = 10}
        starts == {i \in {1} \cup {f + 1 : f \in feeds} : i <= Len(text)}
        start(k) == CHOOSE st \in starts :
                        Cardinality({t \in starts : t < st}) = k - 1
        end(st) == IF \E f \in feeds : f >= st
                   THEN CHOOSE f \in feeds :
                            f >= st /\ \A g \in feeds : g >= st => f <= g
                   ELSE Len(text) + 1
        line(st) == SubSeq(text, st, end(st) - 1)
    IN  [k \in 1 .. Cardinality(starts) |->
            IF line(start(k)) # <<>> /\ end(start(k)) <= Len(text)
               /\ line(start(k))[Len(line(start(k)))] = 13
            THEN Take(line(start(k)), Len(line(start(k))) - 1)
            ELSE line(start(k))]

-----------------------------------------------------------------------------
(* SpecParse: Parameter::parse applied to operands drawn from bounded sets *)

MaxDataLen == 4
MaxGlobalLen == 4

\* word0 candidates: the marker, the fillers, and addresses around the two
\* windows; data_addr is the first byte after a one-operand record at 104
ParseDataAddr == GLOBAL_DATA_OFFSET + Len(CODE_START_MAGIC) + 16 + 12
ParseWord0 ==
    {ACTIONREF_MARK, FILLER_L, FILLER_FF, U32(0)}
    \cup {U32(GLOBAL_DATA_OFFSET + d) : d \in -1 .. MaxGlobalLen}
    \cup {U32(ParseDataAddr + d) : d \in -1 .. MaxDataLen}
ParseWord1 == {ACTIONREF_MARK, FILLER_L, FILLER_FF, U32(0), U32(ParseDataAddr)}
ParseWord2 == {FILLER_L, FILLER_FF, U32(0)}

\* the windows: the record's own data, and a global pool; the second pool
\* length reaches into the data window (the overlap the priority decides)
ParseGlobalLens ==
    (0 .. MaxGlobalLen) \cup {ParseDataAddr - GLOBAL_DATA_OFFSET + 2}

ParseArgs ==
    [value : ParseWord0 \X ParseWord1 \X ParseWord2,
     data_addr : {U32(ParseDataAddr)},
     data_len : {U32(n) : n \in {0, MaxDataLen}},
     global_data_len : {U32(n) : n \in ParseGlobalLens}]

InitParse ==
    /\ pc = "parse"
    /\ build \in {"debug", "release"}
    /\ arg \in ParseArgs
    /\ pool = <<>>
    /\ ret = Ok(<<>>)
    /\ job = [first |-> "none"]
    /\ fb = <<>>
    /\ dis = <<>>
    /\ asm = <<>>
    /\ result = <<>>

DoParse ==
    /\ pc = "parse"
    /\ ret' = Parse(arg.value, arg.data_addr, arg.data_len, arg.global_data_len)
    /\ pc' = "parsed"
    /\ UNCHANGED <<build, arg, pool, job, fb, dis, asm, result>>

NextParse == DoParse

SpecParse == InitParse /\ [][NextParse]_vars

\* C5: Parameter::parse classifies an operand by a strict priority: the
\* marker 0xFFFFFF41 with a filler in word2 is ActionRef(word1); otherwise,
\* with fillers in word1 and word2, word0 in the record's data window is
\* DataPointer(word0 - data_addr), else word0 in the global pool window is
\* GlobalDataPointer(word0 - GLOBAL_DATA_OFFSET), else Value(word0); any
\* other shape is an error.  (Windows are stated on numbers, not on words.)
C5_ParsePriority ==
    pc = "parsed" =>
        LET w == arg.value
            da == ToNat(arg.data_addr)
            dl == ToNat(arg.data_len)
            gl == ToNat(arg.global_data_len)
            inData == Small(w[1]) /\ ToNat(w[1]) \in da .. (da + dl - 1)
            inGlobal ==
                /\ Small(w[1])
                /\ ToNat(w[1]) \in
                       GLOBAL_DATA_OFFSET .. (GLOBAL_DATA_OFFSET + gl - 1)
        IN  IF w[1] = ACTIONREF_MARK /\ IsFiller(w[3])
            THEN ret = Ok(ActionRef(w[2]))
            ELSE IF IsFiller(w[2]) /\ IsFiller(w[3])
            THEN IF inData
                 THEN ret = Ok(DataPointer(U32(ToNat(w[1]) - da)))
                 ELSE IF inGlobal
                 THEN ret = Ok(GlobalDataPointer(
                                 U32(ToNat(w[1]) - GLOBAL_DATA_OFFSET)))
                 ELSE ret = Ok(Value(w[1]))
            ELSE ret.tag = "Err"

\* an operand that has both the ActionRef shape and the literal shape was
\* parsed, and came out as an ActionRef
C5_Witness ==
    /\ pc = "parsed"
    /\ arg.value[1] = ACTIONREF_MARK
    /\ IsFiller(arg.value[2])
    /\ IsFiller(arg.value[3])
    /\ ret = Ok(ActionRef(arg.value[2]))

\* an operand inside both windows was parsed, and came out as a DataPointer
C5_WitnessOverlap ==
    /\ pc = "parsed"
    /\ ret.tag = "Ok"
    /\ ret.val.kind = "DataPointer"
    /\ ToNat(arg.value[1]) <
           GLOBAL_DATA_OFFSET + ToNat(arg.global_data_len)

-----------------------------------------------------------------------------
(* SpecCodec: encode_string / encode_bytestring, then decode_string, on    *)
(* payloads drawn from bounded sets; and decode_string on given cells      *)

MaxTextLen == 4

\* bytes of the texts: NUL, 'A', 'B', and 0x80 (no well-formed UTF-8)
TextBytes == {0, 65, 66, 128}
RECURSIVE SeqsUpTo(_, _)
SeqsUpTo(S, n) ==
    IF n = 0 THEN {<<>>}
    ELSE LET shorter == SeqsUpTo(S, n - 1)
         IN  shorter \cup {Append(t, x) : t \in shorter, x \in S}

\* integer literals: around the text range 0x100000..0x1000000, and 28783
CodecInts ==
    {U32(0), U32(1), U32(16961), U32(28783), U32(1048575), U32(1048576),
     U32(16777215), U32(16777216), <<65535, 65535>>}

\* payloads of given cells: four bytes of NUL, 'A', 'B', 'C'; and "op"
CellBytes == {0, 65, 66, 67}
CellPayloads ==
    {<<a, b, c, d>> : a \in CellBytes, b \in CellBytes,
                      c \in CellBytes, d \in CellBytes}
    \cup {<<111, 112, 0, 0>>}

CodecArg(kind, type_, bytes, n) ==
    [kind |-> kind, type_ |-> type_, bytes |-> bytes, n |-> n]

\* a cell as it lies in a data pool: header, payload
Cell(type_, payload) ==
    to_le_bytes(type_) \o to_le_bytes(U32(Len(payload) \div 4))
    \o to_le_bytes(U32(1)) \o to_le_bytes(U32(Len(payload))) \o payload

InitCodec ==
    /\ build \in {"debug", "release"}
    /\ ret = Ok(<<>>)
    /\ job = [first |-> "none"]
    /\ fb = <<>>
    /\ dis = <<>>
    /\ asm = <<>>
    /\ result = <<>>
    /\ \/ /\ pc = "encode"
          /\ pool = <<>>
          /\ \/ \E b \in SeqsUpTo(TextBytes, MaxTextLen) :
                    arg = CodecArg("text", U32(0), b, U32(0))
             \/ \E t \in {0, 1}, n \in CodecInts :
                    arg = CodecArg("int", U32(t), <<>>, n)
       \/ /\ pc = "decode"
          /\ \E t \in {0, 1}, b \in CellPayloads :
                /\ arg = CodecArg("cell", U32(t), b, U32(0))
                /\ pool = Cell(U32(t), b)

\* the written form of a text payload (disasm.rs: main), encoded by
\* encode_string; an integer literal, encoded by encode_bytestring
CodecEncode ==
    /\ pc = "encode"
    /\ LET r == IF arg.kind = "text"
                THEN encode_string(
                         write_chars(decode_with_hex_replacement(arg.bytes)),
                         <<>>)
                ELSE encode_bytestring(arg.type_, to_le_bytes(arg.n), <<>>)
       IN  /\ r.tag = "Ok"
           /\ pool' = r.val
    /\ pc' = "decode"
    /\ UNCHANGED <<build, arg, ret, job, fb, dis, asm, result>>

CodecDecode ==
    /\ pc = "decode"
    /\ ret' = decode_string(0, pool)
    /\ pc' = "decoded"
    /\ UNCHANGED <<build, arg, pool, job, fb, dis, asm, result>>

NextCodec == CodecEncode \/ CodecDecode

SpecCodec == InitCodec /\ [][NextCodec]_vars

C3_EncodeDecode ==
    (pc = "decoded" /\ arg.kind \in {"text", "int"}) =>
        /\ ret.tag = "Ok"
        /\ ret.val.tail = <<>>
        /\ arg.kind = "text" => ret.val.st = String(arg.bytes)
        /\ (arg.kind = "int" /\ arg.type_ = U32(0))
               => ret.val.st = Type0U32(arg.n)
        /\ (arg.kind = "int" /\ arg.type_ = U32(1))
               => ret.val.st = Type1U32(arg.n)

\* the text that CodecEncode hands to encode_string
CodecText == write_chars(decode_with_hex_replacement(arg.bytes))

(* C14: the cell that encode_string or encode_bytestring appends has a      *)
(* size (16-byte header, payload, padding) that is a multiple of 4, its     *)
(* length word is 4 times its quad-length word and counts the payload with  *)
(* the padding, and a text payload is followed by at least 1 and at most 4  *)
(* zero bytes: "AB" gives 41 42 00 00.                                      *)
C14_CellSize ==
    (pc \in {"decode", "decoded"} /\ arg.kind \in {"text", "int"}) =>
        /\ Len(pool) % 4 = 0
        /\ Small(get_u32_le(pool, 4))
        /\ get_u32_le(pool, 12) = U32(4 * ToNat(get_u32_le(pool, 4)))
        /\ Len(pool) = 16 + ToNat(get_u32_le(pool, 12))
        /\ arg.kind = "text" =>
               \E nzero \in 1 .. 4 :
                   Drop(pool, 16) = encode_pieces(CodecText, 1) \o Zeros(nzero)
        /\ (arg.kind = "text" /\ arg.bytes = <<65, 66>>) =>
               Drop(pool, 16) = <<65, 66, 0, 0>>

\* a text of four bytes encoded: four zero bytes follow it
C14_Witness ==
    /\ pc = "decode"
    /\ arg.kind = "text"
    /\ arg.bytes = <<65, 66, 66, 65>>
    /\ Drop(pool, 16) = <<65, 66, 66, 65, 0, 0, 0, 0>>

-----------------------------------------------------------------------------
(* disasm.rs: chunk_actions as a process, one step per loop iteration.      *)
(* fb.actions is the action map in key order; dis holds the locals of       *)
(* chunk_actions: chunks, current_labels, current_chunk, the next action of *)
(* the first loop and cur (1-based) of the second.                          *)

MaxActions == 3

\* the keys of the map, ascending
ChunkAddr(i) == U32(32 * i)

\* what an action can be: a return, another opcode or a call, with no
\* operand or one ActionRef to a key of the map
ChunkShapes ==
    [kind : {"return", "op", "call"}, ref : 0 .. MaxActions]

ChunkEntry(i, shape) ==
    [addr |-> ChunkAddr(i),
     act |-> Action(None, shape.kind = "call",
                    IF shape.kind = "op" THEN U32(1) ELSE U32(0),
                    IF shape.ref = 0 THEN <<>>
                    ELSE <<ActionRef(ChunkAddr(shape.ref))>>,
                    <<>>)]

ChunkMap(shapes) ==
    [i \in DOMAIN shapes |-> ChunkEntry(i, shapes[i])]

ChunkStart ==
    [chunks |-> <<>>, current_labels |-> {}, current_chunk |-> <<>>,
     next |-> 1, cur |-> 1]

\* chunk_actions reads no option and does no arithmetic that can overflow
InitChunk ==
    /\ pc = "chunk_split"
    /\ build = "release"
    /\ arg = <<>>
    /\ pool = <<>>
    /\ ret = <<>>
    /\ job = [first |-> "none"]
    /\ \E n \in 0 .. MaxActions :
          \E shapes \in [1 .. n -> ChunkShapes] :
              fb = [actions |-> ChunkMap(shapes)]
    /\ dis = ChunkStart
    /\ asm = <<>>
    /\ result = <<>>

\* one turn of `for (&addr, act) in acts`
ChunkPush ==
    /\ pc = "chunk_split"
    /\ dis.next <= Len(fb.actions)
    /\ LET entry == fb.actions[dis.next]
           ls == dis.current_labels \cup action_labels(entry)
           ch == Append(dis.current_chunk, entry)
       IN  IF ~entry.act.call /\ entry.act.opcode = U32(0)
           THEN dis' = [dis EXCEPT !.chunks =
                                       Append(@, [labels |-> ls, acts |-> ch]),
                                   !.current_labels = {},
                                   !.current_chunk = <<>>,
                                   !.next = @ + 1]
           ELSE dis' = [dis EXCEPT !.current_labels = ls,
                                   !.current_chunk = ch,
                                   !.next = @ + 1]
    /\ UNCHANGED <<pc, build, arg, pool, ret, job, fb, asm, result>>

\* after the first loop: the unfinished chunk is kept, cur = 0
ChunkFlush ==
    /\ pc = "chunk_split"
    /\ dis.next > Len(fb.actions)
    /\ dis' = [dis EXCEPT !.chunks =
                              IF dis.current_chunk # <<>>
                              THEN Append(@, [labels |-> dis.current_labels,
                                              acts |-> dis.current_chunk])
                              ELSE @,
                          !.current_labels = {},
                          !.current_chunk = <<>>,
                          !.cur = 1]
    /\ pc' = "chunk_merge"
    /\ UNCHANGED <<build, arg, pool, ret, job, fb, asm, result>>

\* the inner loop finds an intersecting chunk: drain, continue 'outer
ChunkMerge ==
    /\ pc = "chunk_merge"
    /\ dis.cur + 1 <= Len(dis.chunks)
    /\ chunk_hits(dis.chunks, dis.cur) # {}
    /\ dis' = [dis EXCEPT !.chunks =
                              chunk_drain(dis.chunks, dis.cur,
                                          chunk_last_hit(dis.chunks, dis.cur))]
    /\ UNCHANGED <<pc, build, arg, pool, ret, job, fb, asm, result>>

\* the inner loop finds none: break, cur += 1
ChunkAdvance ==
    /\ pc = "chunk_merge"
    /\ dis.cur + 1 <= Len(dis.chunks)
    /\ chunk_hits(dis.chunks, dis.cur) = {}
    /\ dis' = [dis EXCEPT !.cur = @ + 1]
    /\ UNCHANGED <<pc, build, arg, pool, ret, job, fb, asm, result>>

\* cur + 1 < chunks.len() fails: the chunks are returned
ChunkReturn ==
    /\ pc = "chunk_merge"
    /\ ~(dis.cur + 1 <= Len(dis.chunks))
    /\ ret' = [c \in 1 .. Len(dis.chunks) |-> dis.chunks[c].acts]
    /\ pc' = "chunk_done"
    /\ UNCHANGED <<build, arg, pool, job, fb, dis, asm, result>>

NextChunk ==
    ChunkPush \/ ChunkFlush \/ ChunkMerge \/ ChunkAdvance \/ ChunkReturn

SpecChunk == InitChunk /\ [][NextChunk]_vars

\* the function runs on: no step of it waits for anything
SpecChunkLive == SpecChunk /\ WF_vars(NextChunk)

\* the process computes what the operator chunk_actions computes
ChunkAgrees == pc = "chunk_done" => ret = chunk_actions(fb.actions)

(* C11: chunk_actions terminates on every finite action map: every merge    *)
(* of the inner loop leaves fewer chunks and cur where it is, every other   *)
(* step of the second loop leaves the chunks alone and does not move cur    *)
(* back, and the function returns in the end.                               *)
C11_Terminates ==
    /\ [][pc = "chunk_merge" =>
             \/ /\ Len(dis'.chunks) < Len(dis.chunks)
                /\ dis'.cur = dis.cur
             \/ /\ dis'.chunks = dis.chunks
                /\ dis'.cur >= dis.cur
                /\ dis'.cur > dis.cur \/ pc' = "chunk_done"]_vars
    /\ <>(pc = "chunk_done")

\* a run that merged at least twice and returned
C11_Witness ==
    /\ pc = "chunk_done"
    /\ Len(ret) + 2 <= Len(chunk_split(fb.actions, 1, <<>>, {}, <<>>))

(* Reading the chunks returned, for the property below *)

\* the label-set of a returned chunk: the keys of its actions and the
\* targets of their ActionRef operands
ChunkLabelSet(chunk) ==
    UNION {{chunk[k].addr}
           \cup {chunk[k].act.params[p].v :
                    p \in {q \in DOMAIN chunk[k].act.params :
                              chunk[k].act.params[q].kind = "ActionRef"}} :
           k \in DOMAIN chunk}

\* the actions of the chunks, one chunk after the other
RECURSIVE ChunkActions(_)
ChunkActions(chunks) ==
    IF chunks = <<>> THEN <<>>
    ELSE Head(chunks) \o ChunkActions(Tail(chunks))

(* C12: the chunks chunk_actions returns have pairwise disjoint label-sets  *)
(* (own addresses and ActionRef targets), and read one after the other they *)
(* are the actions of the map, each once, in ascending address order.       *)
C12_ChunksPartition ==
    pc = "chunk_done" =>
        /\ \A a, b \in DOMAIN ret :
               a < b => ChunkLabelSet(ret[a]) \cap ChunkLabelSet(ret[b]) = {}
        /\ ChunkActions(ret) = fb.actions
        /\ \A k \in 1 .. Len(ChunkActions(ret)) - 1 :
               u32_lt(ChunkActions(ret)[k].addr, ChunkActions(ret)[k + 1].addr)

\* several chunks returned, one of them merged from chunks that an ActionRef
\* joins
C12_Witness ==
    /\ pc = "chunk_done"
    /\ Len(ret) >= 2
    /\ Len(ret) < Len(chunk_split(fb.actions, 1, <<>>, {}, <<>>))

-----------------------------------------------------------------------------
(* The two tools as processes: main of disasm.rs (with from_bytes) and main *)
(* of asm.rs, each run on an input and, when it succeeds, followed by the   *)
(* other tool on its output.                                                *)

NoResult == [tag |-> "None", val |-> <<>>, msg |-> ""]

AsmStart(text) ==
    [input |-> text, lines |-> <<>>, ln |-> 0, tag |-> <<>>,
     filler |-> FILLER_FF, global_data |-> <<>>, actions |-> <<>>,
     pending_references |-> <<>>, renames |-> <<>>, out |-> <<>>]

FbStart(bytes) ==
    [file |-> bytes, pos |-> 0, tag |-> <<>>, export_addr |-> U32(0),
     export_len |-> U32(0), global_len |-> 0, global_data |-> <<>>,
     actions |-> <<>>]

DisStart == [autolabels |-> <<>>, stdout |-> <<>>]

\* the lines of a listing, each ended by a line feed
RECURSIVE Listing(_)
Listing(ls) ==
    IF ls = <<>> THEN <<>> ELSE Head(ls) \o <<10>> \o Listing(Tail(ls))

(* the listings given to the assembler *)
\* a call of a label that is defined on a later line
Text_forward ==
    Listing(<<
        T(<<".", "t", "a", "g", " ", "\"", "A", "\"">>),
        T(<<".", "g", "l", "o", "b", "a", "l", "_", "d", "a", "t", "a",
          " ">>),
        T(<<".", "c", "o", "d", "e", "_", "s", "t", "a", "r", "t">>),
        <<>>,
        T(<<"f", "o", "o", ":", " ", "c", "a", "l", "l", " ", "b", "a",
          "r">>),
        T(<<"r", "a", "w", " ", "5", ",", " ", "[", "f", "o", "o", "]", ",",
          " ", "1", "F">>),
        T(<<"r", "e", "t", "u", "r", "n">>),
        <<>>,
        T(<<"b", "a", "r", ":", " ", "r", "e", "t", "u", "r", "n">>)
    >>)

\* local_ and fn_ labels, referenced by a call and by an operand
Text_locals ==
    Listing(<<
        T(<<".", "t", "a", "g", " ", "\"", "A", "\"">>),
        T(<<".", "g", "l", "o", "b", "a", "l", "_", "d", "a", "t", "a",
          " ">>),
        T(<<".", "c", "o", "d", "e", "_", "s", "t", "a", "r", "t">>),
        T(<<"m", "a", "i", "n", ":", " ", "c", "a", "l", "l", " ", "f", "n",
          "_", "1">>),
        T(<<"r", "a", "w", " ", "5", ",", " ", "[", "l", "o", "c", "a", "l",
          "_", "2", "]", ",", " ", "[", "m", "a", "i", "n", "]">>),
        T(<<"l", "o", "c", "a", "l", "_", "2", ":", " ", "r", "e", "t", "u",
          "r", "n">>),
        T(<<"f", "n", "_", "1", ":", " ", "r", "e", "t", "u", "r", "n">>)
    >>)

\* a call of a label that no line defines
Text_undefined_call ==
    Listing(<<
        T(<<".", "t", "a", "g", " ", "\"", "A", "\"">>),
        T(<<".", "g", "l", "o", "b", "a", "l", "_", "d", "a", "t", "a",
          " ">>),
        T(<<".", "c", "o", "d", "e", "_", "s", "t", "a", "r", "t">>),
        T(<<"m", "a", "i", "n", ":", " ", "c", "a", "l", "l", " ", "n", "o",
          "w", "h", "e", "r", "e">>),
        T(<<"r", "e", "t", "u", "r", "n">>)
    >>)

\* an operand that names a label that no line defines
Text_undefined_ref ==
    Listing(<<
        T(<<".", "t", "a", "g", " ", "\"", "A", "\"">>),
        T(<<".", "g", "l", "o", "b", "a", "l", "_", "d", "a", "t", "a",
          " ">>),
        T(<<".", "c", "o", "d", "e", "_", "s", "t", "a", "r", "t">>),
        T(<<"m", "a", "i", "n", ":", " ", "r", "a", "w", " ", "1", ",", " ",
          "[", "m", "i", "s", "s", "i", "n", "g", "]">>),
        T(<<"r", "e", "t", "u", "r", "n">>)
    >>)

\* the two pointer spellings of the listing
Text_pointers ==
    Listing(<<
        T(<<".", "t", "a", "g", " ", "\"", "A", "\"">>),
        T(<<".", "g", "l", "o", "b", "a", "l", "_", "d", "a", "t", "a", " ",
          "A", "A", "A", "A", "A", "A", "A", "A", "A", "A", "A">>),
        T(<<".", "c", "o", "d", "e", "_", "s", "t", "a", "r", "t">>),
        T(<<"m", "a", "i", "n", ":", " ", "r", "a", "w", " ", "1", ",", " ",
          "[", "d", "a", "t", "a", "+", "4", "]", ",", " ", "[", "g", "l",
          "o", "b", "a", "l", "_", "d", "a", "t", "a", "+", "4", "]">>),
        T(<<"r", "e", "t", "u", "r", "n">>)
    >>)

\* a label whose name is data+4
Text_data_label ==
    Listing(<<
        T(<<".", "t", "a", "g", " ", "\"", "A", "\"">>),
        T(<<".", "g", "l", "o", "b", "a", "l", "_", "d", "a", "t", "a",
          " ">>),
        T(<<".", "c", "o", "d", "e", "_", "s", "t", "a", "r", "t">>),
        T(<<"m", "a", "i", "n", ":", " ", "r", "a", "w", " ", "1", ",", " ",
          "[", "d", "a", "t", "a", "+", "4", "]">>),
        T(<<"d", "a", "t", "a", "+", "4", ":", " ", "r", "e", "t", "u", "r",
          "n">>)
    >>)

\* the escape that the disassembler writes for an undecodable byte
Text_upper_hex ==
    Listing(<<
        T(<<".", "t", "a", "g", " ", "\"", "A", "\"">>),
        T(<<".", "g", "l", "o", "b", "a", "l", "_", "d", "a", "t", "a",
          " ">>),
        T(<<".", "c", "o", "d", "e", "_", "s", "t", "a", "r", "t">>),
        T(<<"m", "a", "i", "n", ":", " ", "r", "a", "w", " ", "1", ",", " ",
          "\"", "\\", "X", "8", "0", "A", "B", "C", "\"">>),
        T(<<"r", "e", "t", "u", "r", "n">>)
    >>)

\* cells, junk and address annotations
Text_cells ==
    Listing(<<
        T(<<".", "t", "a", "g", " ", "\"", "L", "\"">>),
        T(<<".", "g", "l", "o", "b", "a", "l", "_", "d", "a", "t", "a",
          " ">>),
        T(<<".", "c", "o", "d", "e", "_", "s", "t", "a", "r", "t">>),
        T(<<"0", "0", "0", "0", "6", "8", " ", "m", "a", "i", "n", ":", " ",
          "r", "a", "w", " ", "2", ",", " ", "\"", "A", "B", "C", "D", "\"",
          ",", " ", "=", "5", ",", " ", "@", "=", "7", ",", " ", "1", "0",
          " ", "!", " ", "A", "Q", "I", "D", "B", "A">>),
        T(<<"0", "0", "0", "0", "9", "4", " ", "r", "e", "t", "u", "r",
          "n">>)
    >>)

\* a line whose operation is not known
Text_bad_op ==
    Listing(<<
        T(<<".", "t", "a", "g", " ", "\"", "A", "\"">>),
        T(<<".", "g", "l", "o", "b", "a", "l", "_", "d", "a", "t", "a",
          " ">>),
        T(<<".", "c", "o", "d", "e", "_", "s", "t", "a", "r", "t">>),
        T(<<"m", "a", "i", "n", ":", " ", "b", "o", "g", "u", "s", " ",
          "1">>)
    >>)

\* a listing without a tag line
Text_bad_tag ==
    Listing(<<
        T(<<".", "g", "l", "o", "b", "a", "l", "_", "d", "a", "t", "a",
          " ">>),
        T(<<".", "c", "o", "d", "e", "_", "s", "t", "a", "r", "t">>),
        T(<<"m", "a", "i", "n", ":", " ", "r", "e", "t", "u", "r", "n">>)
    >>)

\* a global-data offset that does not fit after the header
Text_global_overflow ==
    Listing(<<
        T(<<".", "t", "a", "g", " ", "\"", "A", "\"">>),
        T(<<".", "g", "l", "o", "b", "a", "l", "_", "d", "a", "t", "a",
          " ">>),
        T(<<".", "c", "o", "d", "e", "_", "s", "t", "a", "r", "t">>),
        T(<<"m", "a", "i", "n", ":", " ", "r", "a", "w", " ", "1", ",", " ",
          "[", "g", "l", "o", "b", "a", "l", "_", "d", "a", "t", "a", "+",
          "4", "2", "9", "4", "9", "6", "7", "2", "9", "5", "]">>),
        T(<<"r", "e", "t", "u", "r", "n">>)
    >>)

\* one label on two lines
Text_twice ==
    Listing(<<
        T(<<".", "t", "a", "g", " ", "\"", "A", "\"">>),
        T(<<".", "g", "l", "o", "b", "a", "l", "_", "d", "a", "t", "a",
          " ">>),
        T(<<".", "c", "o", "d", "e", "_", "s", "t", "a", "r", "t">>),
        T(<<"f", "o", "o", ":", " ", "r", "a", "w", " ", "1", ",", " ", "[",
          "f", "o", "o", "]">>),
        T(<<"f", "o", "o", ":", " ", "r", "e", "t", "u", "r", "n">>)
    >>)

\* a global-data pool of four bytes
Text_global_aligned ==
    Listing(<<
        T(<<".", "t", "a", "g", " ", "\"", "A", "\"">>),
        T(<<".", "g", "l", "o", "b", "a", "l", "_", "d", "a", "t", "a", " ",
          "A", "Q", "I", "D", "B", "A">>),
        T(<<".", "c", "o", "d", "e", "_", "s", "t", "a", "r", "t">>),
        T(<<"m", "a", "i", "n", ":", " ", "r", "a", "w", " ", "1", ",", " ",
          "[", "g", "l", "o", "b", "a", "l", "_", "d", "a", "t", "a", "+",
          "0", "]">>),
        T(<<"r", "e", "t", "u", "r", "n">>)
    >>)

\* a global-data pool of two bytes
Text_global_odd ==
    Listing(<<
        T(<<".", "t", "a", "g", " ", "\"", "A", "\"">>),
        T(<<".", "g", "l", "o", "b", "a", "l", "_", "d", "a", "t", "a", " ",
          "A", "Q", "I">>),
        T(<<".", "c", "o", "d", "e", "_", "s", "t", "a", "r", "t">>),
        T(<<"m", "a", "i", "n", ":", " ", "r", "e", "t", "u", "r", "n">>)
    >>)

\* a global-data pool that holds the bytes of the code-section magic and
\* of a record header (call 0, opcode 1, no operand, length 44)
Text_global_magic ==
    Listing(<<
        T(<<".", "t", "a", "g", " ", "\"", "A", "\"">>),
        T(<<".", "g", "l", "o", "b", "a", "l", "_", "d", "a", "t", "a", " ",
          "Q", "0", "9", "E", "R", "V", "9", "T", "V", "E", "F", "S", "V",
          "F", "8", "A", "A", "A", "A", "A", "A", "A", "E", "A", "A", "A",
          "A", "A", "A", "A", "A", "A", "L", "A", "A", "A", "A", "A">>),
        T(<<".", "c", "o", "d", "e", "_", "s", "t", "a", "r", "t">>),
        T(<<"m", "a", "i", "n", ":", " ", "r", "e", "t", "u", "r", "n">>),
        T(<<"f", "o", "o", ":", " ", "r", "e", "t", "u", "r", "n">>)
    >>)

\* two unexported labels, each called and used as an operand: the operand
\* comes first for one, the call for the other
Text_both ==
    Listing(<<
        T(<<".", "t", "a", "g", " ", "\"", "A", "\"">>),
        T(<<".", "g", "l", "o", "b", "a", "l", "_", "d", "a", "t", "a", " ">>),
        T(<<".", "c", "o", "d", "e", "_", "s", "t", "a", "r", "t">>),
        T(<<"m", "a", "i", "n", ":", " ", "r", "a", "w", " ", "1", ",", " ",
          "[", "l", "o", "c", "a", "l", "_", "2", "]">>),
        T(<<"c", "a", "l", "l", " ", "l", "o", "c", "a", "l", "_", "2">>),
        T(<<"c", "a", "l", "l", " ", "f", "n", "_", "1">>),
        T(<<"r", "a", "w", " ", "1", ",", " ", "[", "f", "n", "_", "1", "]",
          ",", " ", "[", "l", "o", "c", "a", "l", "_", "3", "]">>),
        T(<<"l", "o", "c", "a", "l", "_", "2", ":", " ", "r", "e", "t", "u",
          "r", "n">>),
        T(<<"f", "n", "_", "1", ":", " ", "r", "e", "t", "u", "r", "n">>),
        T(<<"l", "o", "c", "a", "l", "_", "3", ":", " ", "r", "e", "t", "u",
          "r", "n">>)
    >>)

\* two exported actions, the first a call of the second
Text_example ==
    Listing(<<
        T(<<".", "t", "a", "g", " ", "\"", "A", "\"">>),
        T(<<".", "g", "l", "o", "b", "a", "l", "_", "d", "a", "t", "a", " ">>),
        T(<<".", "c", "o", "d", "e", "_", "s", "t", "a", "r", "t">>),
        T(<<"f", "o", "o", ":", " ", "c", "a", "l", "l", " ", "b", "a", "r">>),
        T(<<"b", "a", "r", ":", " ", "r", "e", "t", "u", "r", "n">>)
    >>)

AsmInputs ==
    {[note |-> "forward", text |-> Text_forward],
     [note |-> "locals", text |-> Text_locals],
     [note |-> "undefined_call", text |-> Text_undefined_call],
     [note |-> "undefined_ref", text |-> Text_undefined_ref],
     [note |-> "pointers", text |-> Text_pointers],
     [note |-> "data_label", text |-> Text_data_label],
     [note |-> "upper_hex", text |-> Text_upper_hex],
     [note |-> "cells", text |-> Text_cells],
     [note |-> "bad_op", text |-> Text_bad_op],
     [note |-> "bad_tag", text |-> Text_bad_tag],
     [note |-> "global_overflow", text |-> Text_global_overflow],
     [note |-> "twice", text |-> Text_twice],
     [note |-> "global_aligned", text |-> Text_global_aligned],
     [note |-> "global_odd", text |-> Text_global_odd],
     [note |-> "global_magic", text |-> Text_global_magic],
     [note |-> "both", text |-> Text_both],
     [note |-> "example", text |-> Text_example]}

(* the files given to the disassembler *)

\* a record of the action stream; length is the stored length field
Record(call, opcode, nparams, length, words, data) ==
    to_le_bytes(U32(call)) \o to_le_bytes(opcode) \o to_le_bytes(U32(nparams))
    \o to_le_bytes(U32(length)) \o words \o data

\* the three words of an operand
Words(a, b, c) == to_le_bytes(a) \o to_le_bytes(b) \o to_le_bytes(c)

\* a cell of a data blob
FileCell(type_, payload) ==
    to_le_bytes(U32(type_)) \o to_le_bytes(U32(Len(payload) \div 4))
    \o to_le_bytes(U32(1)) \o to_le_bytes(U32(Len(payload))) \o payload

\* the export table: a zero word, the name padded to 32 bytes, the address
RECURSIVE ExportTable(_)
ExportTable(exports) ==
    IF exports = <<>> THEN <<>>
    ELSE to_le_bytes(U32(0)) \o Head(exports)[1]
         \o Zeros(32 - Len(Head(exports)[1]))
         \o to_le_bytes(U32(Head(exports)[2]))
         \o ExportTable(Tail(exports))

\* a whole file; unk is the 32 bytes of the header that no tool interprets
File(tag, unk, global_data, stream, exports) ==
    LET export_addr == GLOBAL_DATA_OFFSET + Len(global_data)
                       + Len(CODE_START_MAGIC) + Len(stream)
                       + Len(EXPORT_DATA_MAGIC)
        collection_addr == export_addr + 40 * Len(exports)
                           + Len(COLLECTION_LINK_MAGIC)
    IN  STCM2_MAGIC \o tag \o Zeros(STCM2_TAG_LENGTH - Len(tag))
        \o to_le_bytes(U32(export_addr)) \o to_le_bytes(U32(Len(exports)))
        \o to_le_bytes(U32(2)) \o to_le_bytes(U32(collection_addr)) \o unk
        \o GLOBAL_DATA_MAGIC \o global_data \o CODE_START_MAGIC \o stream
        \o EXPORT_DATA_MAGIC \o ExportTable(exports)
        \o COLLECTION_LINK_MAGIC \o to_le_bytes(U32(0))
        \o to_le_bytes(U32(collection_addr + 64)) \o Zeros(56)

\* the file with the byte at offset at (0-based) replaced
Patch(bytes, at, b) == [bytes EXCEPT ![at + 1] = b]

MAIN == T(<<"m", "a", "i", "n">>)
F == FILLER_FF

\* 104 main: raw 5, 7 / 132: return
Stream_plain ==
    Record(0, U32(5), 1, 28, Words(U32(7), F, F), <<>>)
    \o Record(0, U32(0), 0, 16, <<>>, <<>>)

File_plain == File(<<65>>, Zeros(32), <<>>, Stream_plain, <<<<MAIN, 104>>>>)

\* the same actions in a file whose uninterpreted header bytes are not zero
File_unk ==
    File(<<65>>, <<1>> \o Zeros(31), <<>>, Stream_plain, <<<<MAIN, 104>>>>)

\* 104 main: call 148 / 120: raw 1, [164] / 148: return / 164: return
File_refs ==
    File(<<65>>, Zeros(32), <<>>,
         Record(1, U32(148), 0, 16, <<>>, <<>>)
         \o Record(0, U32(1), 1, 28, Words(ACTIONREF_MARK, U32(164), F), <<>>)
         \o Record(0, U32(0), 0, 16, <<>>, <<>>)
         \o Record(0, U32(0), 0, 16, <<>>, <<>>),
         <<<<MAIN, 104>>>>)

\* 104 main: raw 2, "ABCD", @=7 with four bytes of junk / 192: return
File_cells ==
    File(<<65>>, Zeros(32), <<>>,
         Record(0, U32(2), 2, 88,
                Words(U32(148), F, F) \o Words(U32(172), F, F),
                <<9, 9, 9, 9>>
                \o FileCell(0, <<65, 66, 67, 68, 0, 0, 0, 0>>)
                \o FileCell(1, <<7, 0, 0, 0>>))
         \o Record(0, U32(0), 0, 16, <<>>, <<>>),
         <<<<MAIN, 104>>>>)

\* 104 main: raw 1, a text cell whose first byte is not UTF-8 / 156: return
File_malformed ==
    File(<<65>>, Zeros(32), <<>>,
         Record(0, U32(1), 1, 52, Words(U32(132), F, F),
                FileCell(0, <<128, 65, 66, 67, 0, 0, 0, 0>>))
         \o Record(0, U32(0), 0, 16, <<>>, <<>>),
         <<<<MAIN, 104>>>>)

\* four bytes of global data; 108 main: raw 3, [global_data+0] / 136: return
File_global ==
    File(<<76>>, Zeros(32), <<1, 0, 0, 0>>,
         Record(0, U32(3), 1, 28,
                Words(U32(GLOBAL_DATA_OFFSET), FILLER_L, FILLER_L), <<>>)
         \o Record(0, U32(0), 0, 16, <<>>, <<>>),
         <<<<MAIN, 108>>>>)

\* File_plain with the stored length of a record below 16 + 12 * nparams
File_short1 == Patch(File_plain, 104 + 12, 16)
File_short0 == Patch(File_plain, 132 + 12, 12)

\* File_plain with the first record's stored length covering the second
File_long == Patch(File_plain, 104 + 12, 44)

DisasmInputs ==
    {[note |-> "plain", bytes |-> File_plain],
     [note |-> "unk", bytes |-> File_unk],
     [note |-> "refs", bytes |-> File_refs],
     [note |-> "cells", bytes |-> File_cells],
     [note |-> "malformed", bytes |-> File_malformed],
     [note |-> "global", bytes |-> File_global],
     [note |-> "STCM2", bytes |-> Patch(File_plain, 0, 115)],
     [note |-> "GLOBAL_DATA", bytes |-> Patch(File_plain, 80, 103)],
     [note |-> "CODE_START_", bytes |-> Patch(File_plain, 92, 99)],
     [note |-> "EXPORT_DATA", bytes |-> Patch(File_plain, 148, 101)],
     [note |-> "COLLECTION_LINK", bytes |-> Patch(File_plain, 200, 99)],
     [note |-> "short1", bytes |-> File_short1],
     [note |-> "short0", bytes |-> File_short0],
     [note |-> "long", bytes |-> File_long]}

\* the magics whose alteration an input's note names
Magics == {"STCM2", "GLOBAL_DATA", "CODE_START_", "EXPORT_DATA",
           "COLLECTION_LINK"}

-----------------------------------------------------------------------------
(* the processes *)

tools == <<job, fb, dis, asm, result>>
unit == <<arg, pool, ret>>

Init ==
    /\ build \in {"debug", "release"}
    /\ arg = <<>>
    /\ pool = <<>>
    /\ ret = Ok(<<>>)
    /\ result = [asm |-> NoResult, disasm |-> NoResult]
    /\ dis = DisStart
    /\ \E junk \in BOOLEAN, address \in BOOLEAN :
          \/ \E in \in AsmInputs :
                /\ job = [first |-> "asm", note |-> in.note,
                          args |-> [junk |-> junk, address |-> address]]
                /\ asm = AsmStart(in.text)
                /\ fb = FbStart(<<>>)
                /\ pc = "asm_header"
          \/ \E in \in DisasmInputs :
                /\ job = [first |-> "disasm", note |-> in.note,
                          args |-> [junk |-> junk, address |-> address]]
                /\ asm = AsmStart(<<>>)
                /\ fb = FbStart(in.bytes)
                /\ pc = "fb_header"

\* the tool ends with r, where it stands
asm_fails(r) ==
    /\ result' = [result EXCEPT !.asm = [r EXCEPT !.val = <<>>]]
    /\ UNCHANGED <<pc, asm>>

disasm_fails(r) ==
    /\ result' = [result EXCEPT !.disasm = [r EXCEPT !.val = <<>>]]
    /\ UNCHANGED <<pc, fb, dis>>

(* asm.rs: main, reading the lines and the three header lines *)
AsmHeader ==
    /\ pc = "asm_header"
    /\ result.asm.tag = "None"
    /\ LET read(lines, h) ==
               IF h.tag = "Ok"
               THEN /\ asm' = [asm EXCEPT !.lines = lines, !.ln = 4,
                                          !.tag = h.val.tag,
                                          !.filler = h.val.filler,
                                          !.global_data = h.val.global_data]
                    /\ pc' = IF Len(lines) >= 4 THEN "asm_code"
                             ELSE "asm_resolve"
                    /\ UNCHANGED result
               ELSE asm_fails(h)
           stripped(lines) == read(lines, asm_header(lines))
           split_up(raw) ==
               stripped([i \in 1 .. Len(raw) |->
                            strip_initial_address(raw[i])])
       IN  split_up(lines_of(asm.input))
    /\ UNCHANGED <<build, unit, job, fb, dis>>

(* asm.rs: main, one turn of `for instr in code` *)
AsmLine ==
    /\ pc = "asm_code"
    /\ result.asm.tag = "None"
    /\ LET after == IF asm.ln + 1 > Len(asm.lines) THEN "asm_resolve"
                    ELSE "asm_code"
           push(r) ==
               IF r.tag = "Ok"
               THEN /\ asm' = [asm EXCEPT !.ln = @ + 1,
                                          !.actions = r.val.actions,
                                          !.pending_references =
                                              r.val.pending_references]
                    /\ pc' = after
                    /\ UNCHANGED result
               ELSE asm_fails(r)
       IN  IF asm.lines[asm.ln] = <<>>
           THEN /\ asm' = [asm EXCEPT !.ln = @ + 1]
                /\ pc' = after
                /\ UNCHANGED result
           ELSE push(asm_line(asm.lines[asm.ln], asm.actions,
                              asm.pending_references))
    /\ UNCHANGED <<build, unit, job, fb, dis>>

(* asm.rs: main, the resolution pass *)
AsmResolve ==
    /\ pc = "asm_resolve"
    /\ result.asm.tag = "None"
    /\ LET resolved(r) ==
               IF r.tag = "Ok"
               THEN /\ asm' = [asm EXCEPT !.actions = r.val]
                    /\ pc' = "asm_rename"
                    /\ UNCHANGED result
               ELSE asm_fails(r)
       IN  resolved(resolve_actions(asm.actions, asm.pending_references))
    /\ UNCHANGED <<build, unit, job, fb, dis>>

(* asm.rs: main, the rename table and the renaming of the pointers *)
AsmRename ==
    /\ pc = "asm_rename"
    /\ result.asm.tag = "None"
    /\ LET renamed(renames, r) ==
               IF r.tag = "Ok"
               THEN /\ asm' = [asm EXCEPT !.actions = r.val,
                                          !.renames = renames]
                    /\ pc' = "asm_write"
                    /\ UNCHANGED result
               ELSE asm_fails(r)
           tabled(renames) ==
               renamed(renames, rename_actions(asm.actions, renames))
       IN  tabled(rename_table(asm.actions))
    /\ UNCHANGED <<build, unit, job, fb, dis>>

(* asm.rs: main, building and writing the file *)
AsmWrite ==
    /\ pc = "asm_write"
    /\ result.asm.tag = "None"
    /\ LET written(r) ==
               IF r.tag = "Ok"
               THEN /\ asm' = [asm EXCEPT !.out = r.val]
                    /\ pc' = "asm_done"
                    /\ result' = [result EXCEPT !.asm = Ok(<<>>)]
               ELSE asm_fails(r)
       IN  written(asm_write(asm.tag, asm.filler, asm.global_data,
                             asm.actions, asm.renames))
    /\ UNCHANGED <<build, unit, job, fb, dis>>

(* stcm2.rs: from_bytes, up to the action stream *)
FbHeader ==
    /\ pc = "fb_header"
    /\ result.disasm.tag = "None"
    /\ LET read(h) ==
               IF h.tag = "Ok"
               THEN /\ fb' = [fb EXCEPT !.pos = h.val.pos, !.tag = h.val.tag,
                                        !.export_addr = h.val.export_addr,
                                        !.export_len = h.val.export_len,
                                        !.global_len = h.val.global_len,
                                        !.global_data = h.val.global_data]
                    /\ pc' = "fb_actions"
                    /\ UNCHANGED <<result, dis>>
               ELSE disasm_fails(h)
       IN  read(fb_header(fb.file))
    /\ UNCHANGED <<build, unit, job, asm>>

(* stcm2.rs: from_bytes, one turn of the `while` over the action stream *)
FbAction ==
    /\ pc = "fb_actions"
    /\ result.disasm.tag = "None"
    /\ more_actions(fb.pos, fb.export_addr) # Ok(FALSE)
    /\ LET read(r) ==
               IF r.tag = "Ok"
               THEN /\ fb' = [fb EXCEPT !.pos = r.val.pos,
                                        !.actions =
                                            Append(@, [addr |-> r.val.addr,
                                                       act |-> r.val.act])]
                    /\ UNCHANGED <<pc, result, dis>>
               ELSE disasm_fails(r)
       IN  IF more_actions(fb.pos, fb.export_addr) # Ok(TRUE)
           THEN disasm_fails(more_actions(fb.pos, fb.export_addr))
           ELSE read(fb_action(fb.file, fb.pos, fb.global_len))
    /\ UNCHANGED <<build, unit, job, asm>>

(* stcm2.rs: from_bytes, from the end of the action stream to Ok(Stcm2) *)
FbExports ==
    /\ pc = "fb_actions"
    /\ result.disasm.tag = "None"
    /\ more_actions(fb.pos, fb.export_addr) = Ok(FALSE)
    /\ LET read(r) ==
               IF r.tag = "Ok"
               THEN /\ fb' = [fb EXCEPT !.actions = r.val,
                                        !.pos = fb.pos + Len(EXPORT_DATA_MAGIC)
                                                + 40 * ToNat(fb.export_len)]
                    /\ pc' = "dis_autolabels"
                    /\ UNCHANGED <<result, dis>>
               ELSE disasm_fails(r)
       IN  IF ~starts_with(Drop(fb.file, fb.pos), EXPORT_DATA_MAGIC)
           THEN disasm_fails(Err("ensure: EXPORT_DATA_MAGIC"))
           ELSE read(fb_exports(fb.file, fb.pos + Len(EXPORT_DATA_MAGIC),
                                fb.export_len, fb.actions))
    /\ UNCHANGED <<build, unit, job, asm>>

(* disasm.rs: main, the autolabels and their attachment to the actions *)
DisAutolabels ==
    /\ pc = "dis_autolabels"
    /\ result.disasm.tag = "None"
    /\ LET attached(autolabels, r) ==
               IF r.tag # "Ok" THEN disasm_fails(r)
               ELSE /\ fb' = [fb EXCEPT !.actions = r.val]
                    /\ dis' = [dis EXCEPT !.autolabels = autolabels]
                    /\ pc' = "dis_print"
                    /\ UNCHANGED result
           built(a) ==
               IF a.tag # "Ok" THEN disasm_fails(a)
               ELSE attached(a.val, attach_autolabels(fb.actions, a.val))
       IN  built(build_autolabels(fb.actions, 1, <<>>))
    /\ UNCHANGED <<build, unit, job, asm>>

(* disasm.rs: main, the listing *)
DisPrint ==
    /\ pc = "dis_print"
    /\ result.disasm.tag = "None"
    /\ LET printed(r) ==
               IF r.tag # "Ok" THEN disasm_fails(r)
               ELSE /\ dis' = [dis EXCEPT !.stdout = r.val]
                    /\ pc' = "dis_done"
                    /\ result' = [result EXCEPT !.disasm = Ok(<<>>)]
                    /\ UNCHANGED fb
       IN  printed(print_listing(fb.tag, fb.global_data, fb.actions, job.args))
    /\ UNCHANGED <<build, unit, job, asm>>

\* the listing of a finished disassembly is given to the assembler
PipeToAsm ==
    /\ pc = "dis_done"
    /\ job.first = "disasm"
    /\ asm' = AsmStart(dis.stdout)
    /\ pc' = "asm_header"
    /\ UNCHANGED <<build, unit, job, fb, dis, result>>

\* the file of a finished assembly is given to the disassembler
PipeToDisasm ==
    /\ pc = "asm_done"
    /\ job.first = "asm"
    /\ fb' = FbStart(asm.out)
    /\ pc' = "fb_header"
    /\ UNCHANGED <<build, unit, job, asm, dis, result>>

Next ==
    \/ AsmHeader \/ AsmLine \/ AsmResolve \/ AsmRename \/ AsmWrite
    \/ FbHeader \/ FbAction \/ FbExports \/ DisAutolabels \/ DisPrint
    \/ PipeToAsm \/ PipeToDisasm

Spec == Init /\ [][Next]_vars

-----------------------------------------------------------------------------
(* Reading a listing and a file back, for the properties below *)

\* the code lines of the listing that each give one action, in order
CodeLines == SelectSeq(SubSeq(asm.lines, 4, Len(asm.lines)),
                       LAMBDA l : l # <<>>)

\* the label that a line defines, if any, and the line after it
LineLabel(l) ==
    IF label_match(l) > 0 THEN Some(decode_label(Take(l, label_match(l))))
    ELSE None
LineInstr(l) == IF label_match(l) > 0 THEN Drop(l, label_match(l) + 2) ELSE l

\* the operation and the operands of a line
LineParts(l) == split(LineInstr(l)).val.parts
Bracketed(op) == Len(op) >= 2 /\ op[1] = 91 /\ op[Len(op)] = 93
Inner(op) == SubSeq(op, 2, Len(op) - 1)

\* an operand spelled [<prefix>N] with a decimal N, and its N
IsOffsetOf(op, prefix) ==
    /\ Bracketed(op)
    /\ starts_with(Inner(op), prefix)
    /\ Len(Inner(op)) > Len(prefix)
    /\ \A i \in Len(prefix) + 1 .. Len(Inner(op)) : IsDigit(Inner(op)[i])
OffsetOf(op, prefix) == parse_u32(Drop(Inner(op), Len(prefix)), 10).val

OperandData == T(<<"d", "a", "t", "a", "+">>)
OperandGlobal == T(<<"g", "l", "o", "b", "a", "l", "_", "d", "a", "t", "a", "+">>)

\* the name that an operation or an operand refers to, if it refers to one
CalledName(l) ==
    IF starts_with(LineParts(l)[1], CALL_PREFIX)
    THEN Some(decode_label(Drop(LineParts(l)[1], Len(CALL_PREFIX))))
    ELSE None
OperandName(op) ==
    IF Bracketed(op) /\ ~starts_with(Inner(op), OperandGlobal)
    THEN Some(decode_label(Inner(op)))
    ELSE None

DefinedNames ==
    {LineLabel(CodeLines[k]).v :
        k \in {k \in 1 .. Len(CodeLines) : LineLabel(CodeLines[k]).some}}
ReferencedNames ==
    {CalledName(CodeLines[k]).v :
        k \in {k \in 1 .. Len(CodeLines) : CalledName(CodeLines[k]).some}}
    \cup
    UNION {{OperandName(LineParts(CodeLines[k])[j]).v :
               j \in {j \in 2 .. Len(LineParts(CodeLines[k])) :
                         OperandName(LineParts(CodeLines[k])[j]).some}} :
           k \in 1 .. Len(CodeLines)}

\* the last line that defines a name
LastDefinition(name) ==
    CHOOSE k \in 1 .. Len(CodeLines) :
        /\ LineLabel(CodeLines[k]) = Some(name)
        /\ \A m \in k + 1 .. Len(CodeLines) :
              LineLabel(CodeLines[m]) # Some(name)

\* the assembler has accepted the header and every line
AllLinesAccepted ==
    /\ asm.ln >= 4
    /\ pc \notin {"asm_header", "asm_code"}
ResolveFailed == pc = "asm_resolve" /\ result.asm.tag # "None"
ResolvePassed == AllLinesAccepted /\ pc # "asm_resolve"

\* the export table of the assembled file, as (name field, address) records
OutExports ==
    [i \in 1 .. ToNat(get_u32_le(asm.out, 36)) |->
        LET at == ToNat(get_u32_le(asm.out, 32)) + 40 * (i - 1)
        IN  [name |-> SubSeq(asm.out, at + 5, at + 36),
             addr |-> ToNat(get_u32_le(asm.out, at + 36))]]

\* where the assembled file holds action k
OutOffset(k) ==
    GLOBAL_DATA_OFFSET + Len(asm.global_data) + Len(CODE_START_MAGIC)
    + ToNat(asm.renames[k])

LocalName(name) ==
    \/ starts_with(name, T(<<"l", "o", "c", "a", "l", "_">>))
    \/ starts_with(name, T(<<"f", "n", "_">>))

\* from_bytes has returned
FromBytesReturned ==
    pc \notin {"fb_header", "fb_actions"} \/ result.disasm.tag # "None"
FromBytesErr ==
    pc \in {"fb_header", "fb_actions"} /\ result.disasm.tag = "Err"

\* the inputs that are well-formed files
ValidFiles == {"plain", "unk", "refs", "cells", "malformed", "global"}

-----------------------------------------------------------------------------
(* C1: every valid file, disassembled with junk output and without         *)
(* addresses and then assembled, gives back the same bytes: both tools     *)
(* succeed and the assembler's output equals the file.                      *)
C1_RoundTrip ==
    (job.first = "disasm" /\ job.note \in ValidFiles
     /\ job.args.junk /\ ~job.args.address)
    => /\ result.disasm.tag \in {"None", "Ok"}
       /\ result.asm.tag \in {"None", "Ok"}
       /\ pc = "asm_done" => asm.out = fb.file

\* the round trip of a file whose uninterpreted header bytes are zero and
\* whose text decodes: the same bytes come back
C1_CanonicalRoundTrip ==
    (job.first = "disasm" /\ job.note \in ValidFiles \ {"unk", "malformed"}
     /\ job.args.junk /\ ~job.args.address /\ pc = "asm_done")
    => asm.out = fb.file

-----------------------------------------------------------------------------
(* C4: a listing in which an inline string holds the escape \XHH is        *)
(* assembled without error.                                                 *)
HasUpperHexEscape(text) ==
    \E i \in 1 .. Len(text) - 1 : text[i] = 92 /\ text[i + 1] = 88

C4_UpperHexEscape ==
    HasUpperHexEscape(asm.input) => result.asm.tag \in {"None", "Ok"}

-----------------------------------------------------------------------------
(* C6, as stated: an operand [data+N] becomes DataPointer(N) and an operand *)
(* [global_data+N] becomes GlobalDataPointer(N).                            *)
C6_Original ==
    pc \in {"asm_code", "asm_resolve"} =>
        \A k \in 1 .. Len(asm.actions) :
            \A j \in 1 .. Len(asm.actions[k].params) :
                LET op == LineParts(CodeLines[k])[j + 1]
                IN  /\ IsOffsetOf(op, OperandData) =>
                           asm.actions[k].params[j]
                               = DataPointer(OffsetOf(op, OperandData))
                    /\ IsOffsetOf(op, OperandGlobal) =>
                           asm.actions[k].params[j]
                               = GlobalDataPointer(OffsetOf(op, OperandGlobal))

(* C6, amended: an operand [global_data+N] becomes GlobalDataPointer(N)    *)
(* and is no label reference; an operand [data+N] is read as a reference   *)
(* to the label named data+N (an ActionRef whose name is entered in the    *)
(* pending-reference table), and never becomes a DataPointer.               *)
C6_PointerOperands ==
    pc \in {"asm_code", "asm_resolve"} =>
        \A k \in 1 .. Len(asm.actions) :
            \A j \in 1 .. Len(asm.actions[k].params) :
                LET op == LineParts(CodeLines[k])[j + 1]
                IN  /\ IsOffsetOf(op, OperandGlobal) =>
                           asm.actions[k].params[j]
                               = GlobalDataPointer(OffsetOf(op, OperandGlobal))
                    /\ IsOffsetOf(op, OperandData) =>
                          /\ asm.actions[k].params[j].kind = "ActionRef"
                          /\ \E e \in 1 .. Len(asm.pending_references) :
                                /\ asm.pending_references[e].name = Inner(op)
                                /\ asm.actions[k].params[j].v
                                       = placeholder(e - 1)

\* a line with both spellings has been assembled
C6_Witness ==
    /\ pc \in {"asm_code", "asm_resolve"}
    /\ result.asm.tag = "None"
    /\ \E k \in 1 .. Len(asm.actions) :
          \E i, j \in 1 .. Len(asm.actions[k].params) :
              /\ IsOffsetOf(LineParts(CodeLines[k])[i + 1], OperandData)
              /\ IsOffsetOf(LineParts(CodeLines[k])[j + 1], OperandGlobal)
              /\ asm.actions[k].params[j].kind = "GlobalDataPointer"

-----------------------------------------------------------------------------
(* C7: once the header and every line are accepted, the resolution pass    *)
(* fails, with the unresolved-label error, exactly when a call target or a *)
(* [NAME] operand names a label that no line defines; a name defined on a  *)
(* later line than its use resolves.                                        *)
C7_UnresolvedIff ==
    /\ ResolveFailed =>
          /\ result.asm = Err("never encountered this label")
          /\ ReferencedNames \ DefinedNames # {}
    /\ ResolvePassed => ReferencedNames \subseteq DefinedNames

\* the resolution pass has failed on an undefined name
C7_Witness ==
    /\ ResolveFailed
    /\ ReferencedNames \ DefinedNames # {}

\* the resolution pass has passed a call whose target is defined later
C7_WitnessForward ==
    /\ ResolvePassed
    /\ \E k \in 1 .. Len(CodeLines) :
          /\ CalledName(CodeLines[k]).some
          /\ LastDefinition(CalledName(CodeLines[k]).v) > k

-----------------------------------------------------------------------------
(* C8: in an assembled file, an action whose label begins with local_ or   *)
(* fn_ has no record in the export table, every other labelled action has  *)
(* exactly one, carrying its name and its offset, and the table holds      *)
(* nothing else; a call or an operand that names a label, of either sort,  *)
(* holds the offset of the line that defines it.                            *)
C8_LocalLabels ==
    asm.out # <<>> =>
        /\ \A k \in 1 .. Len(CodeLines) :
              LET lbl == LineLabel(CodeLines[k])
                  recs == {i \in 1 .. Len(OutExports) :
                              OutExports[i].addr = OutOffset(k)}
              IN  IF lbl.some /\ ~LocalName(lbl.v)
                  THEN /\ Cardinality(recs) = 1
                       /\ \A i \in recs :
                             OutExports[i].name
                                 = lbl.v \o Zeros(32 - Len(lbl.v))
                  ELSE recs = {}
        /\ \A i \in 1 .. Len(OutExports) :
              \E k \in 1 .. Len(CodeLines) : OutExports[i].addr = OutOffset(k)
        /\ \A k \in 1 .. Len(CodeLines) :
              /\ CalledName(CodeLines[k]).some =>
                    asm.actions[k].opcode
                        = asm.renames[LastDefinition(
                                          CalledName(CodeLines[k]).v)]
              /\ \A j \in 1 .. Len(asm.actions[k].params) :
                    OperandName(LineParts(CodeLines[k])[j + 1]).some =>
                        asm.actions[k].params[j]
                            = ActionRef(asm.renames[LastDefinition(
                                  OperandName(
                                      LineParts(CodeLines[k])[j + 1]).v)])

\* a file has been assembled from a listing in which a fn_ label is called,
\* a local_ label is an operand, and another label is exported
C8_Witness ==
    /\ asm.out # <<>>
    /\ Len(OutExports) > 0
    /\ \E k \in 1 .. Len(CodeLines) :
          /\ CalledName(CodeLines[k]).some
          /\ starts_with(CalledName(CodeLines[k]).v, T(<<"f", "n", "_">>))
    /\ \E k \in 1 .. Len(CodeLines) :
          \E j \in 2 .. Len(LineParts(CodeLines[k])) :
              /\ OperandName(LineParts(CodeLines[k])[j]).some
              /\ starts_with(OperandName(LineParts(CodeLines[k])[j]).v,
                             T(<<"l", "o", "c", "a", "l", "_">>))

-----------------------------------------------------------------------------
(* C9: from_bytes returns an error for every file in which one of the five *)
(* section magics is altered.                                               *)
C9_MagicRejected ==
    (job.first = "disasm" /\ job.note \in Magics /\ FromBytesReturned)
    => FromBytesErr

-----------------------------------------------------------------------------
(* C10: from_bytes returns an error for every file in which the stored     *)
(* length of a record is below 16 + 12 * nparams.                           *)
C10_LengthRejected ==
    (job.first = "disasm" /\ job.note \in {"short0", "short1"}
     /\ FromBytesReturned)
    => FromBytesErr

-----------------------------------------------------------------------------
\* a placeholder p stands for the table entry of name: un-complemented it is
\* the index of that entry, and it is no index or offset below 2^31
PlaceholderOf(p, name) ==
    /\ Small(not_u32(p))
    /\ ToNat(not_u32(p)) < Len(asm.pending_references)
    /\ asm.pending_references[ToNat(not_u32(p)) + 1].name = name
    /\ u32_ge(p, <<32768, 0>>)

(* C13: while the lines are read and until the resolution pass, every call  *)
(* opcode and every ActionRef operand is a placeholder !i that is not below *)
(* 2^31, so that it differs from every action index and byte offset of a    *)
(* file under 2^31 bytes, and un-complementing it gives the index of the    *)
(* table entry of the name that the line refers to.                         *)
C13_Placeholders ==
    (pc \in {"asm_code", "asm_resolve"} /\ asm.ln >= 4) =>
        \A k \in 1 .. Len(asm.actions) :
            /\ asm.actions[k].call =>
                   PlaceholderOf(asm.actions[k].opcode,
                                 CalledName(CodeLines[k]).v)
            /\ \A j \in 1 .. Len(asm.actions[k].params) :
                   asm.actions[k].params[j].kind = "ActionRef" =>
                       PlaceholderOf(
                           asm.actions[k].params[j].v,
                           OperandName(LineParts(CodeLines[k])[j + 1]).v)

\* all lines read, with a call and an ActionRef operand that refer to
\* entries other than the first of the table
C13_Witness ==
    /\ pc = "asm_resolve"
    /\ result.asm.tag = "None"
    /\ \E k \in 1 .. Len(asm.actions) :
           /\ asm.actions[k].call
           /\ not_u32(asm.actions[k].opcode) # U32(0)
    /\ \E k \in 1 .. Len(asm.actions) :
           \E j \in 1 .. Len(asm.actions[k].params) :
               /\ asm.actions[k].params[j].kind = "ActionRef"
               /\ not_u32(asm.actions[k].params[j].v) # U32(0)

-----------------------------------------------------------------------------
\* line k defines a label that is exported; how many lines before k do
Exported(k) ==
    /\ LineLabel(CodeLines[k]).some
    /\ ~LocalName(LineLabel(CodeLines[k]).v)
ExportedBefore(k) == Cardinality({m \in 1 .. k - 1 : Exported(m)})

\* the export table of the assembled file: one record per action with an
\* export name, in the order of the actions, at ascending addresses that
\* are the offsets of these actions
C15_ExportRecords ==
    asm.out # <<>> =>
        /\ Len(OutExports) = ExportedBefore(Len(CodeLines) + 1)
        /\ \A k \in 1 .. Len(CodeLines) :
               Exported(k) =>
                   /\ ExportedBefore(k) + 1 <= Len(OutExports)
                   /\ OutExports[ExportedBefore(k) + 1].addr = OutOffset(k)
                   /\ OutExports[ExportedBefore(k) + 1].name
                          = LineLabel(CodeLines[k]).v
                            \o Zeros(32 - Len(LineLabel(CodeLines[k]).v))
        /\ \A i, j \in 1 .. Len(OutExports) :
               i < j => OutExports[i].addr < OutExports[j].addr

\* the export loop of from_bytes has failed
ExportLoopFailed ==
    /\ pc = "fb_actions"
    /\ result.disasm.tag # "None"
    /\ result.disasm.msg \in {"export does not match known action",
                               "ensure: export is none",
                               "ensure: export word is 0",
                               "get_u32_le/split_to out of bounds"}

(* C15: the export table of an assembled file holds one record per action   *)
(* that has an export name, in ascending address order, each with the       *)
(* offset of a record of the action stream; and from_bytes, given the file, *)
(* attaches every export to an action it has read, one export per action.   *)
C15_ExportsAttach ==
    /\ C15_ExportRecords
    /\ (job.first = "asm" /\ fb.file = asm.out /\ asm.out # <<>>) =>
           /\ ~ExportLoopFailed
           /\ pc = "dis_autolabels" =>
                  \A i \in 1 .. Len(OutExports) :
                      \E a \in 1 .. Len(fb.actions) :
                          /\ ToNat(fb.actions[a].addr) = OutExports[i].addr
                          /\ fb.actions[a].act.export
                                 = Some(OutExports[i].name)

-----------------------------------------------------------------------------
(* Reading the file given to the disassembler, for the property below *)

\* the addresses of the records of its export table
FileExported ==
    {get_u32_le(fb.file,
                ToNat(get_u32_le(fb.file, 32)) + 40 * (i - 1) + 36) :
        i \in 1 .. ToNat(get_u32_le(fb.file, 36))}

\* the addresses that its actions call, and that their operands refer to
FileCalled ==
    {fb.actions[a].act.opcode :
        a \in {a \in 1 .. Len(fb.actions) : fb.actions[a].act.call}}
FileReferenced ==
    UNION {{fb.actions[a].act.params[j].v :
               j \in {j \in 1 .. Len(fb.actions[a].act.params) :
                         fb.actions[a].act.params[j].kind = "ActionRef"}} :
           a \in 1 .. Len(fb.actions)}

(* C16: after the autolabel pass the table of autolabels is determined by   *)
(* the file: its keys are the called or referred-to addresses that have no  *)
(* export record, the label is fn_ADDR where some action calls the address  *)
(* and local_ADDR otherwise, in whatever order the calls and the operands   *)
(* come; and each of these actions carries that label.                      *)
C16_Autolabels ==
    pc \in {"dis_print", "dis_done"} =>
        /\ DOMAIN dis.autolabels
               = (FileCalled \cup FileReferenced) \ FileExported
        /\ \A t \in DOMAIN dis.autolabels :
               /\ dis.autolabels[t]
                      = (IF t \in FileCalled
                         THEN T(<<"f", "n", "_">>)
                         ELSE T(<<"l", "o", "c", "a", "l", "_">>))
                        \o fmt_X(t)
               /\ \E a \in 1 .. Len(fb.actions) :
                      /\ fb.actions[a].addr = t
                      /\ fb.actions[a].act.export = Some(dis.autolabels[t])

\* a file with an address that an operand refers to before an action calls
\* it, one that is called before an operand refers to it, and one that is
\* referred to only
C16_Witness ==
    /\ pc = "dis_print"
    /\ \E a, b \in 1 .. Len(fb.actions) :
           /\ a < b
           /\ fb.actions[b].act.call
           /\ fb.actions[b].act.opcode \in DOMAIN dis.autolabels
           /\ ActionRef(fb.actions[b].act.opcode)
                  \in {fb.actions[a].act.params[j] :
                          j \in 1 .. Len(fb.actions[a].act.params)}
    /\ \E a, b \in 1 .. Len(fb.actions) :
           /\ a < b
           /\ fb.actions[a].act.call
           /\ fb.actions[a].act.opcode \in DOMAIN dis.autolabels
           /\ ActionRef(fb.actions[a].act.opcode)
                  \in {fb.actions[b].act.params[j] :
                          j \in 1 .. Len(fb.actions[b].act.params)}
    /\ DOMAIN dis.autolabels \ FileCalled # {}

-----------------------------------------------------------------------------
\* the resolution pass has replaced the placeholders
Resolved == pc = "asm_rename" /\ result.asm.tag = "None"

\* a step of the assembler leaves every entry of the table where it is
EntriesStay ==
    pc \in {"asm_code", "asm_resolve", "asm_rename", "asm_write"} =>
        /\ Len(asm'.pending_references) >= Len(asm.pending_references)
        /\ \A i \in 1 .. Len(asm.pending_references) :
               asm'.pending_references[i].name
                   = asm.pending_references[i].name

(* C17: after the resolution pass every call opcode and every ActionRef     *)
(* operand is the index, in the action stream, of the last line that        *)
(* defines its label, whether that line comes before or after the           *)
(* reference; and an entry of the table of pending references keeps its     *)
(* index and its name for as long as the assembly runs.                     *)
C17_Resolution ==
    /\ [](Resolved =>
            \A k \in 1 .. Len(CodeLines) :
                /\ CalledName(CodeLines[k]).some =>
                       /\ asm.actions[k].call
                       /\ asm.actions[k].opcode
                              = U32(LastDefinition(
                                        CalledName(CodeLines[k]).v) - 1)
                /\ \A j \in 1 .. Len(asm.actions[k].params) :
                       OperandName(LineParts(CodeLines[k])[j + 1]).some =>
                           asm.actions[k].params[j]
                               = ActionRef(U32(LastDefinition(
                                     OperandName(
                                         LineParts(CodeLines[k])[j + 1]).v)
                                     - 1)))
    /\ [][EntriesStay]_vars

\* resolved: a label defined on two lines and referred to before the second,
\* in one listing; a label called before the line that defines it, in
\* another
C17_Witness ==
    /\ Resolved
    /\ \E k \in 1 .. Len(CodeLines) :
           \E j \in 2 .. Len(LineParts(CodeLines[k])) :
               /\ OperandName(LineParts(CodeLines[k])[j]).some
               /\ LastDefinition(OperandName(LineParts(CodeLines[k])[j]).v)
                      > k
               /\ \E m \in 1 .. k :
                      LineLabel(CodeLines[m])
                          = OperandName(LineParts(CodeLines[k])[j])

C17_WitnessForward ==
    /\ Resolved
    /\ \E k \in 1 .. Len(CodeLines) :
           /\ CalledName(CodeLines[k]).some
           /\ LastDefinition(CalledName(CodeLines[k]).v) > k

-----------------------------------------------------------------------------
\* the pointers have been renamed
Renamed == pc = "asm_write" /\ result.asm.tag = "None"

\* the bytes that the records of actions 1 .. n take
RECURSIVE BytesOf(_)
BytesOf(n) ==
    IF n = 0 THEN 0
    ELSE BytesOf(n - 1) + 16 + 12 * Len(asm.actions[n].params)
         + Len(asm.actions[n].data)

(* C18: the rename table gives each action the sum of the byte lengths      *)
(* (16 + 12 x |params| + |data|) of the actions before it, so that the      *)
(* offsets strictly increase; after renaming every call opcode and every    *)
(* ActionRef operand is the offset, from the start of the code section, of  *)
(* the action that its label names. In `foo: call bar`, `bar: return` the   *)
(* call targets offset 16.                                                  *)
C18_RenameTable ==
    Renamed =>
        /\ Len(asm.renames) = Len(asm.actions)
        /\ \A i \in 1 .. Len(asm.actions) :
               asm.renames[i] = U32(BytesOf(i - 1))
        /\ \A i \in 1 .. Len(asm.actions) - 1 :
               u32_lt(asm.renames[i], asm.renames[i + 1])
        /\ \A k \in 1 .. Len(CodeLines) :
               /\ CalledName(CodeLines[k]).some =>
                      asm.actions[k].opcode
                          = U32(BytesOf(LastDefinition(
                                            CalledName(CodeLines[k]).v) - 1))
               /\ \A j \in 1 .. Len(asm.actions[k].params) :
                      OperandName(LineParts(CodeLines[k])[j + 1]).some =>
                          asm.actions[k].params[j]
                              = ActionRef(U32(BytesOf(LastDefinition(
                                    OperandName(
                                        LineParts(CodeLines[k])[j + 1]).v)
                                    - 1)))
        /\ job.note = "example" =>
               /\ asm.actions[1].call
               /\ asm.actions[1].opcode = U32(16)

\* renamed: an action with operands and data before the target of a call
C18_Witness ==
    /\ Renamed
    /\ \E k \in 1 .. Len(CodeLines) :
           /\ CalledName(CodeLines[k]).some
           /\ \E m \in 1 .. LastDefinition(CalledName(CodeLines[k]).v) - 1 :
                  asm.actions[m].params # <<>>

\* renamed: the listing `foo: call bar`, `bar: return`
C18_WitnessExample ==
    /\ Renamed
    /\ job.note = "example"
    /\ asm.actions[1].opcode = U32(16)

-----------------------------------------------------------------------------
\* from_bytes is reading, or has read, the file that the assembler wrote
ReadsAssembled == job.first = "asm" /\ asm.out # <<>> /\ fb.file = asm.out

(* C19: for every global-data pool that the assembler accepts, from_bytes   *)
(* applied to the assembled file ends its scan for the CODE_START_ magic at *)
(* the end of the pool, without failing, and its global_data is the pool.   *)
C19_GlobalData ==
    ReadsAssembled =>
        /\ pc = "fb_header" => result.disasm.tag = "None"
        /\ pc # "fb_header" =>
               /\ fb.global_data = asm.global_data
               /\ fb.global_len = Len(asm.global_data)

\* the same for the pools whose length is a multiple of 4 and that do not
\* hold the magic
C19_AlignedPools ==
    (ReadsAssembled /\ Len(asm.global_data) % 4 = 0
     /\ find_from(asm.global_data, CODE_START_MAGIC, 1) = 0) =>
        /\ pc = "fb_header" => result.disasm.tag = "None"
        /\ pc # "fb_header" =>
               /\ fb.global_data = asm.global_data
               /\ fb.global_len = Len(asm.global_data)

\* a pool of four bytes read back
C19_AlignedWitness ==
    /\ ReadsAssembled
    /\ pc = "fb_actions"
    /\ fb.global_data = <<1, 2, 3, 4>>


=============================================================================
